---- MODULE Spec2Model ----
(***************************************************************************)
(* ObbyScript (src/obbyscript.c): the deferred-action mechanism of the     *)
(* execution engine, driven by the host's hooks, and the engine's control  *)
(* flow (return, break/continue, loop caps).                               *)
(*                                                                         *)
(* The C call stack is explicit (variable stack): the host calls a hook,   *)
(* the hook runs a rule, a Command action calls do_cmd, and the host's     *)
(* command handler may call further hooks before do_cmd returns.           *)
(***************************************************************************)
EXTENDS Integers, Sequences, FiniteSets, TLC

(***************************************************************************)
(* Bounds of the model.                                                    *)
(***************************************************************************)
MaxDepth == 3        \* frames on the C call stack below a hook that is called
MaxActs == 2         \* Command actions executed in one behaviour
MaxEvents == 2       \* hook invocations in one behaviour
MaxNames == 1        \* distinct command names in the loaded script
MaxRuns == 2         \* rule invocations in one behaviour of the control flow
MaxConnects == 2     \* objects the host allocates under one name in one behaviour
MaxReentry == 1      \* calls of the event's hook made while a rule of the event runs
MaxQueue == 3        \* entries of the deferred list in the model of its order
MaxReloads == 2      \* configuration runs in one behaviour
StackLimit == 3      \* nested chains the stack of the process has room for

NULL == "NULL"
\* the NULL pointer where a text is expected
NoText == <<NULL>>
Garbage == "?garbage"

(***************************************************************************)
(* Strings the code compares character by character are sequences of      *)
(* one-character strings.                                                  *)
(***************************************************************************)
LowerLetters == <<"a","b","c","d","e","f","g","h","i","j","k","l","m",
                  "n","o","p","q","r","s","t","u","v","w","x","y","z">>
UpperLetters == <<"A","B","C","D","E","F","G","H","I","J","K","L","M",
                  "N","O","P","Q","R","S","T","U","V","W","X","Y","Z">>

LowerOf ==
    [c \in {UpperLetters[i] : i \in 1..26} |->
        LowerLetters[CHOOSE i \in 1..26 : UpperLetters[i] = c]]

tolower(c) == IF c \in DOMAIN LowerOf THEN LowerOf[c] ELSE c

\* 0 when the two strings are equal, anything else is reported as 1
strcmp(a, b) == IF a = b THEN 0 ELSE 1

\* 0 when the two strings are equal ignoring case
strcasecmp(a, b) ==
    IF [i \in 1..Len(a) |-> tolower(a[i])] = [i \in 1..Len(b) |-> tolower(b[i])]
    THEN 0 ELSE 1

KICK == <<"K","I","C","K">>
KILL == <<"K","I","L","L">>
KLINE == <<"K","L","I","N","E">>
GLINE == <<"G","L","I","N","E">>
ZLINE == <<"Z","L","I","N","E">>
SHUN == <<"S","H","U","N">>
SVSJOIN == <<"S","V","S","J","O","I","N">>
SAJOIN == <<"S","A","J","O","I","N">>
JOIN == <<"J","O","I","N">>
PRIVMSG == <<"P","R","I","V","M","S","G">>
SAPART == <<"S","A","P","A","R","T">>

\* command names as a script may spell them
CommandSpellings ==
    { <<"k","i","c","k">>, KILL, <<"K","l","i","n","e">>, <<"g","L","I","N","E">>,
      ZLINE, <<"s","h","u","n">>,
      SVSJOIN, <<"s","a","j","o","i","n">>, JOIN,
      PRIVMSG, SAPART }

Clients == {"alice"}
Channels == {"#test"}

\* the nicknames of the clients that send messages
Nicks == {"bob", "alice", "carol"}

RECURSIVE Str(_)
\* the string of a sequence of characters
Str(chars) == IF chars = <<>> THEN "" ELSE chars[1] \o Str(Tail(chars))

VARIABLES
    script,                      \* the command names the loaded rules use
    liveClients,                 \* host: names of the clients that exist
    liveChannels,                \* host: names of the channels that exist
    stack,                       \* the C call stack, innermost frame last
    deferred_actions,            \* the deferred queue, head first
    executing_deferred_actions,
    in_join_context,
    lastDispatch,                \* what the last step did with a command, if anything
    chanRead,                    \* the read of channel state made by the last step, if any
    lost,                        \* the last step freed a queue entry that was never examined
    blocked,                     \* the last step was a replay call that returned at its guard
    crashed,                     \* a read through a dangling pointer faulted
    events,                      \* hook invocations so far
    cmds,                        \* Command actions executed so far
    frames,                      \* execute_script_action: the active walks, innermost last
    should_break,
    should_continue,
    return_val,                  \* global_scope: <<value of __return__>>, <<>> when not set
    var_i,                       \* global_scope: the value of the loop variable %i
    returned,                    \* a Return action has executed in the running rule
    aborted,                     \* a Command of the running rule met a syntax error
    executed,                    \* the action the last step executed, if any
    times,                       \* the times each action of the running rule's chain has executed
    loopExit,                    \* the loop the last step left, if any
    runs,                        \* rule invocations so far
    inline_return,               \* global_scope: the value of __return, "" when empty or not set
    reached,                     \* the first "return $true" or "return $false" the running rule executed
    gate,                        \* what the last call of the join gate returned
    layout,                      \* the lines of the body of the loaded PRIVMSG rule
    event_client,                \* the name of the client of the event being handled
    notices,                     \* the NOTICEs sent for the event being handled
    script_files,                \* the script file the last configuration run loaded
    global_functions,            \* the function table, head first
    pending_caps,                \* the pending capabilities, head first
    reloads,                     \* configuration runs so far
    unloaded,                    \* MOD_UNLOAD has run
    program,                     \* the functions and the rule of the loaded script
    scopes,                      \* the scopes that exist, the module's first
    global_scope,                \* the scope that is current
    calls,                       \* the chains being walked, innermost last
    overflow,                    \* a call found no room on the stack of the process
    const_decl,                  \* the constants declared in the module's scope
    fn_runs,                     \* runs of the rule so far
    script_content,              \* the lines of the script file being loaded
    line_ptr,                    \* the position of current_line, past the end for NULL
    rules,                       \* the rules parsed so far, head first
    open_rule,                   \* the rule whose body is being read, if any
    brace_count,
    action_buffer,               \* the lines of the body read so far
    loaded,                      \* what load_script_file has done
    subst_op,                    \* the substitution function called last
    subst_input,                 \* its text
    subst_ctx,                   \* the client, channel, parameters and variables it ran with
    subst_output,                \* its output, so far
    subst_pc,                    \* the step of substitute_variables that comes next
    bool_expr,                   \* the tree parse_bool_expression returned last
    subst_p,                     \* the cursor p of the loop over the % of output, 0 for NULL
    heap,                        \* the host's clients and channels: allocated or freed
    object_vars,                 \* global_scope: the variables that hold a host object
    objRead,                     \* the read through a variable's object_ptr made by the last step
    rule_actions,                \* the tree of the matching rule, with the next pointers as they are now
    walkers,                     \* the calls of execute_script_action on the tree, innermost last
    issued,                      \* the entries handed to add_deferred_action since the last replay, oldest first
    replayed,                    \* the entries the last replay has handed to do_cmd, oldest first
    replay_action,               \* the position of action in the loop of execute_deferred_actions
    command_files,               \* script_files: the command rules of the file loaded last
    registered_commands,         \* the table of the commands the scripts define, head first
    cmd_read,                    \* the read of cmd->rule->actions a handler made last
    block_content,               \* the lines of the rule body parse_action_block was called with
    block_parse                  \* the line it parses next and its state

hostVars == <<script, liveClients, liveChannels, stack, deferred_actions,
              executing_deferred_actions, in_join_context, lastDispatch,
              chanRead, lost, blocked, crashed, events, cmds>>

execVars == <<frames, should_break, should_continue, return_val, var_i,
              returned, aborted, executed, times, loopExit, runs>>

gateVars == <<inline_return, reached, gate>>

parseVars == <<layout, event_client, notices>>

loadVars == <<script_files, global_functions, pending_caps, reloads, unloaded>>

fnVars == <<program, scopes, global_scope, calls, overflow, const_decl, fn_runs>>

scriptVars == <<script_content, line_ptr, rules, open_rule, brace_count, action_buffer,
                loaded>>

substVars == <<subst_op, subst_input, subst_ctx, subst_output, subst_pc, bool_expr,
              subst_p>>

objectVars == <<heap, object_vars, objRead>>

walkVars == <<rule_actions, walkers>>

queueVars == <<issued, replayed, replay_action>>

commandVars == <<command_files, registered_commands, cmd_read>>

blockVars == <<block_content, block_parse>>

\* what parse_action_block leaves alone
blockKeeps == <<hostVars, execVars, gateVars, parseVars, loadVars, fnVars, scriptVars,
               substVars, objectVars, walkVars, queueVars, commandVars>>

\* what the table of commands leaves alone
commandKeeps == <<hostVars, execVars, gateVars, parseVars, script_files, global_functions,
                 pending_caps, reloads, fnVars, scriptVars,
                 substVars, objectVars, walkVars, queueVars, blockVars>>

\* what the deferred list leaves alone
queueKeeps == <<script, liveClients, liveChannels, stack, in_join_context, lastDispatch,
               chanRead, lost, blocked, crashed, events, cmds, execVars, gateVars,
               parseVars, loadVars, fnVars, scriptVars, substVars, objectVars, walkVars,
               commandVars, blockVars>>

\* what the calls of execute_script_action on a rule's tree leave alone
walkKeeps == <<hostVars, frames, var_i, returned, aborted, executed, times, loopExit,
              gateVars, parseVars, loadVars, fnVars, scriptVars, substVars, objectVars,
              queueVars, commandVars, blockVars>>

textVars == <<scriptVars, substVars, objectVars, walkVars, queueVars, commandVars,
              blockVars>>

vars == <<hostVars, execVars, gateVars, parseVars, loadVars, fnVars, textVars>>

----
(***************************************************************************)
(* Frames.                                                                 *)
(***************************************************************************)
NoFrame == [k |-> "none", hook |-> NULL, left |-> 0, client |-> NULL,
            channel |-> NULL, chanFreed |-> FALSE, clientFreed |-> FALSE,
            snapshot |-> NULL, frees |-> "none", joins |-> FALSE,
            fired |-> 0, rem |-> 0,
            start |-> 0, phase |-> "rules"]

\* execute_scripts_for_event: the by-value snapshot and the live pointers;
\* left is 1 while the action chain of the rule has not ended
HookFrame(h, cl, ch) ==
    [NoFrame EXCEPT !.k = "hook", !.hook = h, !.left = 1, !.client = cl,
                    !.channel = ch, !.snapshot = ch]

Fold(s) == [i \in 1..Len(s) |-> tolower(s[i])]

\* what the host's handler of a command can free: KICK and SAPART take the
\* last member out of a channel, KILL and the server bans remove a client
HandlerFrees(cmd) ==
    IF Fold(cmd) \in {Fold(KICK), Fold(SAPART)} THEN "channel"
    ELSE IF Fold(cmd) \in {Fold(KILL), Fold(KLINE), Fold(GLINE), Fold(ZLINE)} THEN "client"
    ELSE "none"

\* the handlers of JOIN, SAJOIN and SVSJOIN call the JOIN hooks
HandlerJoins(cmd) == Fold(cmd) \in {Fold(JOIN), Fold(SAJOIN), Fold(SVSJOIN)}

\* do_cmd running the handler of command c
DoCmdFrame(c) ==
    [NoFrame EXCEPT !.k = "docmd", !.frees = HandlerFrees(c), !.joins = HandlerJoins(c)]

ReplayFrame(n) == [NoFrame EXCEPT !.k = "replay", !.rem = n, !.start = n]

Top == stack[Len(stack)]
Pop == SubSeq(stack, 1, Len(stack) - 1)
ReplaceTop(f) == [stack EXCEPT ![Len(stack)] = f]

HostIdle == stack = <<>>
InDoCmd == stack # <<>> /\ Top.k = "docmd"

JoinHookRunning ==
    \E i \in 1..Len(stack) :
        stack[i].k = "hook" /\ stack[i].hook \in {"local_join", "remote_join"}

ReplayFrames == {i \in 1..Len(stack) : stack[i].k = "replay"}

\* what the engine did with the last command it handled: via is "sync" (do_cmd
\* from execute_script_action), "replay" (do_cmd from the replay loop) or
\* "deferred" (add_deferred_action); queued is the growth of the queue
NoDispatch == [cmd |-> <<>>, via |-> "none", joinHook |-> FALSE,
               client |-> NULL, channel |-> NULL,
               clientLive |-> FALSE, channelLive |-> FALSE, queued |-> 0]

NoRead == [src |-> "none", dangling |-> FALSE]

----
(***************************************************************************)
(* is_destructive_command, add_deferred_action, the replay guard and the   *)
(* name resolution of the replay.                                          *)
(***************************************************************************)
\* is_destructive_command with strcmp in the place of strcasecmp
is_destructive_command_cs(command) ==
    IF command = NULL THEN FALSE
    ELSE \/ \E n \in {KICK, KILL, KLINE, GLINE, ZLINE, SHUN} : strcmp(command, n) = 0
         \/ /\ in_join_context = 1
            /\ \E n \in {SVSJOIN, SAJOIN, JOIN} : strcmp(command, n) = 0

is_destructive_command(command) ==
    IF command = NULL THEN FALSE
    ELSE \/ \E n \in {KICK, KILL, KLINE, GLINE, ZLINE, SHUN} : strcasecmp(command, n) = 0
         \/ /\ in_join_context = 1
            /\ \E n \in {SVSJOIN, SAJOIN, JOIN} : strcasecmp(command, n) = 0

\* the entry add_deferred_action puts at the head of the list
add_deferred_action(command, client_name, channel_name) ==
    <<[command |-> command, client_name |-> client_name,
       channel_name |-> channel_name]>> \o deferred_actions

find_client(name) == IF name \in liveClients THEN name ELSE NULL
find_channel(name) == IF name \in liveChannels THEN name ELSE NULL

\* the skip test without its channel half
ReplaySkips_clientOnly(action) ==
    action.client_name # NULL /\ find_client(action.client_name) = NULL

\* the skip test of the replay loop: a recorded name that no longer resolves
ReplaySkips(action) ==
    \/ action.client_name # NULL /\ find_client(action.client_name) = NULL
    \/ action.channel_name # NULL /\ find_channel(action.channel_name) = NULL

\* execute_deferred_actions without its guard
ReplayInProgress_never == FALSE

\* the guard at the top of execute_deferred_actions
ReplayInProgress == executing_deferred_actions = 1

----
(***************************************************************************)
(* The host calls a hook.  A hook is called from the host's event loop or  *)
(* by a command handler that do_cmd is running.                            *)
(***************************************************************************)
CanFireHook ==
    /\ ~crashed
    /\ ~unloaded
    /\ events < MaxEvents
    /\ Len(stack) < MaxDepth
    /\ HostIdle \/ (InDoCmd /\ Top.fired = 0)

PushHook(f) ==
    /\ stack' = (IF InDoCmd THEN ReplaceTop([Top EXCEPT !.fired = 1]) ELSE stack) \o <<f>>
    /\ events' = events + 1
    /\ blocked' = FALSE

\* obbyscript_local_join: sets in_join_context and runs the JOIN rules
obbyscript_local_join ==
    /\ CanFireHook
    /\ InDoCmd => Top.joins
    /\ \E cl \in liveClients, ch \in liveChannels :
           PushHook(HookFrame("local_join", cl, ch))
    /\ in_join_context' = 1
    /\ lastDispatch' = NoDispatch
    /\ chanRead' = NoRead
    /\ lost' = FALSE
    /\ UNCHANGED <<textVars, execVars, gateVars, parseVars, loadVars, fnVars, cmds, script, liveClients, liveChannels, deferred_actions,
                   executing_deferred_actions, crashed>>

\* obbyscript_remote_join: runs the JOIN rules
obbyscript_remote_join ==
    /\ CanFireHook
    /\ InDoCmd => Top.joins
    /\ \E cl \in liveClients, ch \in liveChannels :
           PushHook(HookFrame("remote_join", cl, ch))
    /\ lastDispatch' = NoDispatch
    /\ chanRead' = NoRead
    /\ lost' = FALSE
    /\ UNCHANGED <<textVars, execVars, gateVars, parseVars, loadVars, fnVars, cmds, script, liveClients, liveChannels, deferred_actions,
                   executing_deferred_actions, in_join_context, crashed>>

\* the hooks that only call execute_scripts_for_event (part, kick, chanmsg,
\* usermsg, rehash, ...): the channel and the client may be absent
obbyscript_event_hook ==
    /\ CanFireHook
    /\ \E cl \in liveClients \cup {NULL}, ch \in liveChannels \cup {NULL} :
           PushHook(HookFrame("event", cl, ch))
    /\ lastDispatch' = NoDispatch
    /\ chanRead' = NoRead
    /\ lost' = FALSE
    /\ UNCHANGED <<textVars, execVars, gateVars, parseVars, loadVars, fnVars, cmds, script, liveClients, liveChannels, deferred_actions,
                   executing_deferred_actions, in_join_context, crashed>>

\* obbyscript_post_command for a JOIN line of a local client: runs the
\* POST_COMMAND rules (no channel), then replays the queue
obbyscript_post_command ==
    /\ CanFireHook
    /\ \E cl \in liveClients :
           PushHook(HookFrame("post_command", cl, NULL))
    /\ lastDispatch' = NoDispatch
    /\ chanRead' = NoRead
    /\ lost' = FALSE
    /\ UNCHANGED <<textVars, execVars, gateVars, parseVars, loadVars, fnVars, cmds, script, liveClients, liveChannels, deferred_actions,
                   executing_deferred_actions, in_join_context, crashed>>

----
(***************************************************************************)
(* execute_script_action, case US_ACTION_COMMAND.                          *)
(***************************************************************************)
InRule ==
    /\ ~crashed
    /\ stack # <<>>
    /\ Top.k = "hook"
    /\ Top.phase = "rules"
    /\ Top.left > 0
    /\ cmds < MaxActs

\* a name read through a pointer: the object's name, or anything when the
\* object has been freed
NameThrough(name, freed) ==
    IF name = NULL THEN {NULL}
    ELSE IF freed THEN {name, Garbage}
    ELSE {name}

\* substitute_variables reads $chan.* through the live Channel pointer
ReadChannel(reads) ==
    IF reads /\ Top.channel # NULL
    THEN [src |-> "live", dangling |-> Top.chanFreed]
    ELSE NoRead

\* a Command action without a client ends the chain
ExecCommandNoClient ==
    /\ InRule
    /\ Top.client = NULL
    /\ stack' = ReplaceTop([Top EXCEPT !.left = 0])
    /\ blocked' = FALSE
    /\ lastDispatch' = NoDispatch
    /\ chanRead' = NoRead
    /\ lost' = FALSE
    /\ UNCHANGED <<textVars, execVars, gateVars, parseVars, loadVars, fnVars, cmds, script, liveClients, liveChannels, deferred_actions,
                   executing_deferred_actions, in_join_context, crashed,
                   events>>

\* a destructive command is recorded by the names of its client and channel
ExecCommandDefer ==
    /\ InRule
    /\ Top.client # NULL
    /\ \E cmd \in script, reads \in BOOLEAN :
        /\ is_destructive_command(cmd)
        /\ chanRead' = ReadChannel(reads)
        /\ \E cn \in NameThrough(Top.client, Top.clientFreed),
              chn \in NameThrough(Top.channel, Top.chanFreed) :
            /\ deferred_actions' = add_deferred_action(cmd, cn, chn)
            /\ lastDispatch' = [NoDispatch EXCEPT !.cmd = cmd, !.via = "deferred",
                                   !.joinHook = JoinHookRunning,
                                   !.client = cn, !.channel = chn,
                                   !.queued = Len(deferred_actions') - Len(deferred_actions)]
    /\ UNCHANGED stack
    /\ cmds' = cmds + 1
    /\ blocked' = FALSE
    /\ lost' = FALSE
    /\ UNCHANGED <<textVars, execVars, gateVars, parseVars, loadVars, fnVars, script, liveClients, liveChannels,
                   executing_deferred_actions, in_join_context, crashed,
                   events>>

\* any other command goes to the host's command table at once
ExecCommandDispatch ==
    /\ InRule
    /\ Top.client # NULL
    /\ \E cmd \in script, reads \in BOOLEAN :
        /\ ~is_destructive_command(cmd)
        /\ chanRead' = ReadChannel(reads)
        /\ lastDispatch' = [NoDispatch EXCEPT !.cmd = cmd, !.via = "sync",
                               !.joinHook = JoinHookRunning,
                               !.client = Top.client, !.channel = Top.channel]
        /\ stack' = stack \o <<DoCmdFrame(cmd)>>
    /\ cmds' = cmds + 1
    /\ blocked' = FALSE
    /\ lost' = FALSE
    /\ UNCHANGED <<textVars, execVars, gateVars, parseVars, loadVars, fnVars, script, liveClients, liveChannels, deferred_actions,
                   executing_deferred_actions, in_join_context, crashed,
                   events>>

\* reading $chan.* through a pointer to a freed channel may fault
ExecCommandFault ==
    /\ InRule
    /\ Top.client # NULL
    /\ Top.channel # NULL
    /\ Top.chanFreed
    /\ chanRead' = [src |-> "live", dangling |-> TRUE]
    /\ crashed' = TRUE
    /\ blocked' = FALSE
    /\ lastDispatch' = NoDispatch
    /\ lost' = FALSE
    /\ UNCHANGED <<textVars, execVars, gateVars, parseVars, loadVars, fnVars, cmds, script, liveClients, liveChannels, stack,
                   deferred_actions, executing_deferred_actions,
                   in_join_context, events>>

----
(***************************************************************************)
(* The host's command handler, run by do_cmd.                              *)
(***************************************************************************)
MarkFreed(stk, cl, ch) ==
    [i \in 1..Len(stk) |->
        [stk[i] EXCEPT !.chanFreed = @ \/ (ch # NULL /\ stk[i].channel = ch),
                       !.clientFreed = @ \/ (cl # NULL /\ stk[i].client = cl)]]

\* the handler frees a channel (last member left) or a client (killed)
DoCmdFree ==
    /\ ~crashed
    /\ InDoCmd
    /\ Top.phase = "rules"
    /\ \/ /\ Top.frees = "channel"
          /\ \E ch \in liveChannels :
                /\ liveChannels' = liveChannels \ {ch}
                /\ stack' = MarkFreed(ReplaceTop([Top EXCEPT !.phase = "freed"]), NULL, ch)
          /\ UNCHANGED liveClients
       \/ /\ Top.frees = "client"
          /\ \E cl \in liveClients :
                /\ liveClients' = liveClients \ {cl}
                /\ stack' = MarkFreed(ReplaceTop([Top EXCEPT !.phase = "freed"]), cl, NULL)
          /\ UNCHANGED liveChannels
    /\ blocked' = FALSE
    /\ lastDispatch' = NoDispatch
    /\ chanRead' = NoRead
    /\ lost' = FALSE
    /\ UNCHANGED <<textVars, execVars, gateVars, parseVars, loadVars, fnVars, cmds, script, deferred_actions, executing_deferred_actions,
                   in_join_context, crashed, events>>

DoCmdReturn ==
    /\ ~crashed
    /\ InDoCmd
    /\ stack' = Pop
    /\ blocked' = FALSE
    /\ lastDispatch' = NoDispatch
    /\ chanRead' = NoRead
    /\ lost' = FALSE
    /\ UNCHANGED <<textVars, execVars, gateVars, parseVars, loadVars, fnVars, cmds, script, liveClients, liveChannels, deferred_actions,
                   executing_deferred_actions, in_join_context, crashed,
                   events>>

\* a client connects or a channel is created while the host is idle
HostCreate ==
    /\ ~crashed
    /\ HostIdle
    /\ \/ /\ \E cl \in Clients \ liveClients : liveClients' = liveClients \cup {cl}
          /\ UNCHANGED liveChannels
       \/ /\ \E ch \in Channels \ liveChannels : liveChannels' = liveChannels \cup {ch}
          /\ UNCHANGED liveClients
    /\ blocked' = FALSE
    /\ lastDispatch' = NoDispatch
    /\ chanRead' = NoRead
    /\ lost' = FALSE
    /\ UNCHANGED <<textVars, execVars, gateVars, parseVars, loadVars, fnVars, cmds, script, stack, deferred_actions,
                   executing_deferred_actions, in_join_context, crashed,
                   events>>

----
(***************************************************************************)
(* execute_deferred_actions and its callers.                               *)
(***************************************************************************)
\* execute_deferred_actions called with the caller's frame f on top
execute_deferred_actions(f) ==
    IF ReplayInProgress
    THEN /\ stack' = ReplaceTop(f)
         /\ blocked' = TRUE
         /\ UNCHANGED executing_deferred_actions
    ELSE /\ stack' = ReplaceTop(f) \o <<ReplayFrame(Len(deferred_actions))>>
         /\ executing_deferred_actions' = 1
         /\ blocked' = FALSE

\* the 10ms timer of the host's event loop
obbyscript_execute_deferred_timer ==
    /\ ~crashed
    /\ HostIdle
    /\ deferred_actions # <<>> /\ executing_deferred_actions = 0
    /\ IF ReplayInProgress
       THEN /\ blocked' = TRUE
            /\ UNCHANGED <<stack, executing_deferred_actions>>
       ELSE /\ stack' = <<ReplayFrame(Len(deferred_actions))>>
            /\ executing_deferred_actions' = 1
            /\ blocked' = FALSE
    /\ lost' = FALSE
    /\ UNCHANGED <<textVars, execVars, gateVars, parseVars, loadVars, fnVars, cmds, script, liveClients, liveChannels, deferred_actions,
                   in_join_context, lastDispatch, chanRead, crashed, events>>

\* obbyscript_post_command after its rules: the JOIN line replays the queue
PostCommandReplay ==
    /\ ~crashed
    /\ stack # <<>>
    /\ Top.k = "hook" /\ Top.hook = "post_command"
    /\ Top.phase = "rules"
    /\ execute_deferred_actions([Top EXCEPT !.phase = "done"])
    /\ lastDispatch' = NoDispatch
    /\ chanRead' = NoRead
    /\ lost' = FALSE
    /\ UNCHANGED <<textVars, execVars, gateVars, parseVars, loadVars, fnVars, cmds, script, liveClients, liveChannels, deferred_actions,
                   in_join_context, crashed, events>>

\* one turn of the replay loop: the entry under the cursor is skipped when a
\* recorded name no longer resolves, and handed to do_cmd otherwise
ReplayStep ==
    /\ ~crashed
    /\ stack # <<>>
    /\ Top.k = "replay"
    /\ Top.rem > 0
    /\ LET action == deferred_actions[Len(deferred_actions) - Top.rem + 1]
           f == [Top EXCEPT !.rem = @ - 1]
       IN  IF ReplaySkips(action)
           THEN /\ stack' = ReplaceTop(f)
                /\ lastDispatch' = NoDispatch
           ELSE /\ stack' = ReplaceTop(f) \o <<DoCmdFrame(action.command)>>
                /\ lastDispatch' =
                      [NoDispatch EXCEPT !.cmd = action.command, !.via = "replay",
                          !.joinHook = JoinHookRunning,
                          !.client = action.client_name,
                          !.channel = action.channel_name,
                          !.clientLive = (action.client_name = NULL
                                            \/ action.client_name \in liveClients),
                          !.channelLive = (action.channel_name = NULL
                                            \/ action.channel_name \in liveChannels)]
    /\ blocked' = FALSE
    /\ chanRead' = NoRead
    /\ lost' = FALSE
    /\ UNCHANGED <<textVars, execVars, gateVars, parseVars, loadVars, fnVars, cmds, script, liveClients, liveChannels, deferred_actions,
                   executing_deferred_actions, in_join_context, crashed,
                   events>>

\* the end of the replay: free_deferred_actions frees the whole list
ReplayFinish ==
    /\ ~crashed
    /\ stack # <<>>
    /\ Top.k = "replay"
    /\ Top.rem = 0
    /\ lost' = (Len(deferred_actions) > Top.start)
    /\ deferred_actions' = <<>>
    /\ executing_deferred_actions' = 0
    /\ stack' = Pop
    /\ blocked' = FALSE
    /\ lastDispatch' = NoDispatch
    /\ chanRead' = NoRead
    /\ UNCHANGED <<textVars, execVars, gateVars, parseVars, loadVars, fnVars, cmds, script, liveClients, liveChannels, in_join_context, crashed,
                   events>>

\* a hook returns to the host; obbyscript_local_join clears in_join_context
HookReturn ==
    /\ ~crashed
    /\ stack # <<>>
    /\ Top.k = "hook"
    /\ Top.hook = "post_command" => Top.phase = "done"
    /\ in_join_context' = (IF Top.hook = "local_join" THEN 0 ELSE in_join_context)
    /\ stack' = Pop
    /\ blocked' = FALSE
    /\ lastDispatch' = NoDispatch
    /\ chanRead' = NoRead
    /\ lost' = FALSE
    /\ UNCHANGED <<textVars, execVars, gateVars, parseVars, loadVars, fnVars, cmds, script, liveClients, liveChannels, deferred_actions,
                   executing_deferred_actions, crashed, events>>

----
(***************************************************************************)
(* The control flow of execute_script_action.  A rule body is a list of    *)
(* actions; an If, While or For action carries its nested actions.  The    *)
(* rule is run for an event that has a client.                             *)
(*                                                                         *)
(* A variable of the global scope holds a decimal text written with "%d"   *)
(* and read with atoi; the model keeps the integer the text denotes.       *)
(***************************************************************************)
MAX_LOOP_ITERATIONS == 10000

\* the value of a variable or of a literal: no value, a number, or a text
Unset == [t |-> "unset", n |-> 0, s |-> ""]
Num(n) == [t |-> "num", n |-> n, s |-> ""]
Text(s) == [t |-> "text", n |-> 0, s |-> s]

NoCond == [variable |-> NULL, operator |-> "", value |-> Unset]

\* a condition as parse_simple_condition and the For parser leave it
Compare(variable, operator, value) ==
    [variable |-> variable, operator |-> operator, value |-> value]

NoAction == [type |-> "none", function |-> NoText, argc |-> 0, args |-> <<>>,
             condition |-> NoCond,
             bool_expr |-> NoCond,
             nested_actions |-> <<>>, else_actions |-> <<>>,
             loop_init |-> Unset, loop_increment |-> NULL, loop_var |-> NULL,
             loop_start |-> 0, loop_end |-> 0, loop_step |-> 0]

SendNotice == [NoAction EXCEPT !.type = "US_ACTION_SENDNOTICE"]

\* a command line "NAME arg ..." of a rule body, with the arguments as texts
Command(args) ==
    [NoAction EXCEPT !.type = "US_ACTION_COMMAND", !.argc = Len(args), !.args = args]
Break == [NoAction EXCEPT !.type = "US_ACTION_BREAK"]
Continue == [NoAction EXCEPT !.type = "US_ACTION_CONTINUE"]

\* a function definition of a script file
Function(name, body) == [name |-> name, body |-> body]

\* a line "cap <name>" of a rule body
Cap(cap_name) ==
    [NoAction EXCEPT !.type = "US_ACTION_CAP", !.argc = 1, !.args = <<cap_name>>]

\* a script file as load_script_file parses it: the functions it defines, the
\* actions of its START rule and the command names its other rules use
ScriptFile(functions, start, commands) ==
    [functions |-> functions, start |-> start, commands |-> commands]

NoFile == ScriptFile(<<>>, <<>>, {})

\* strncmp(s, p, strlen(p)) == 0
StartsWith(s, p) == Len(s) >= Len(p) /\ SubSeq(s, 1, Len(p)) = p

DollarTrue == <<"$","t","r","u","e">>
DollarFalse == <<"$","f","a","l","s","e">>

SYNTAX_ERROR == <<"S","Y","N","T","A","X","_","E","R","R","O","R">>

\* the literal or variable name lit stands at position k of input and is
\* followed by a character that is not in ok
BadSuffix(input, k, lit, ok) ==
    /\ k + Len(lit) - 1 <= Len(input)
    /\ SubSeq(input, k, k + Len(lit) - 1) = lit
    /\ k + Len(lit) <= Len(input)
    /\ input[k + Len(lit)] \notin ok

\* the validation of substitute_variables: at every "$" the first of $true,
\* $false, $client, $chan, $channel and $server the text starts with decides,
\* by the character after it
SyntaxErrorIn(input) ==
    \E k \in 1..Len(input) :
        /\ input[k] = "$"
        /\ LET p == SubSeq(input, k, Len(input))
           IN  IF StartsWith(p, DollarTrue)
               THEN BadSuffix(input, k, DollarTrue, {" ", ")", ",", "\""})
               ELSE IF StartsWith(p, DollarFalse)
               THEN BadSuffix(input, k, DollarFalse, {" ", ")", ",", "\""})
               ELSE IF StartsWith(p, <<"$","c","l","i","e","n","t">>)
               THEN BadSuffix(input, k, <<"$","c","l","i","e","n","t">>, {".", " "})
               ELSE IF StartsWith(p, <<"$","c","h","a","n">>)
               THEN BadSuffix(input, k, <<"$","c","h","a","n">>, {".", " "})
               ELSE IF StartsWith(p, <<"$","c","h","a","n","n","e","l">>)
               THEN BadSuffix(input, k, <<"$","c","h","a","n","n","e","l">>, {".", " "})
               ELSE IF StartsWith(p, <<"$","s","e","r","v","e","r">>)
               THEN BadSuffix(input, k, <<"$","s","e","r","v","e","r">>, {".", " "})
               ELSE FALSE

\* substitute_variables for a text none of whose variables has a value: a
\* malformed use gives the text SYNTAX_ERROR, any other input is returned
\* as it is
substitute_variables(input) ==
    IF SyntaxErrorIn(input) THEN SYNTAX_ERROR ELSE input

\* the parser of "return <value>": only a value that starts with $true or
\* $false, or a quoted text, becomes args[0]; any other value expression
\* leaves argc at 0
ParseReturn(value) ==
    LET return == [NoAction EXCEPT !.type = "US_ACTION_RETURN"]
        quotes == {j \in 2..Len(value) : value[j] = "\""}
    IN  IF StartsWith(value, DollarTrue)
        THEN [return EXCEPT !.argc = 1, !.args = <<DollarTrue>>]
        ELSE IF StartsWith(value, DollarFalse)
        THEN [return EXCEPT !.argc = 1, !.args = <<DollarFalse>>]
        ELSE IF value # <<>> /\ value[1] = "\"" /\ quotes # {}
        THEN [return EXCEPT !.argc = 1,
                            !.args = <<SubSeq(value, 2,
                                        (CHOOSE j \in quotes : \A k \in quotes : j <= k) - 1)>>]
        ELSE return

\* "if (cond) { nested } else { else_actions }", block form; the parser keeps
\* the condition of an If or While in bool_expr and leaves condition NULL
If(cond, nested, else_actions) ==
    [NoAction EXCEPT !.type = "US_ACTION_IF", !.bool_expr = cond,
                     !.nested_actions = nested, !.else_actions = else_actions]

\* "if (cond) <action>" on one line: the text of the action is args[0]
InlineIf(cond, action_str) ==
    [NoAction EXCEPT !.type = "US_ACTION_IF", !.bool_expr = cond,
                     !.argc = 1, !.args = <<action_str>>]

While(cond, nested) ==
    [NoAction EXCEPT !.type = "US_ACTION_WHILE", !.bool_expr = cond,
                     !.nested_actions = nested]

\* "for (var %i = init; cond; %i++) { nested }"
ForC(init, cond, increment, nested) ==
    [NoAction EXCEPT !.type = "US_ACTION_FOR", !.loop_init = init,
                     !.loop_var = "i", !.condition = cond,
                     !.loop_increment = increment, !.nested_actions = nested]

\* "for (%i in <range>)": start, end and step are set only when the range
\* holds "..", and are the zeroes of safe_alloc otherwise
ParseRange(range, nested) ==
    IF Len(range) = 2
    THEN [NoAction EXCEPT !.type = "US_ACTION_FOR", !.loop_var = "i",
                          !.loop_start = range[1], !.loop_end = range[2],
                          !.loop_step = 1, !.nested_actions = nested]
    ELSE [NoAction EXCEPT !.type = "US_ACTION_FOR", !.loop_var = "i",
                          !.nested_actions = nested]

is_falsy_value(value) ==
    \/ value.t = "unset"
    \/ value.t = "text" /\ value.s \in {"", "0", "$false", "false", "$null", "null"}
    \/ value.t = "num" /\ value.n = 0

\* evaluate_condition_value for a literal or for %i
evaluate_condition_value(text, vi) == IF text = "%i" THEN vi ELSE Text(text)

\* evaluate_condition with a client: truthiness without an operator, text
\* equality for == and !=, and 0 for every other operator
evaluate_condition(condition, vi) ==
    IF condition.variable = NULL THEN 0
    ELSE IF condition.operator = ""
    THEN (IF is_falsy_value(evaluate_condition_value(condition.variable, vi)) THEN 0 ELSE 1)
    ELSE IF condition.variable = "$client.name"
    THEN (IF condition.operator = "=="
          THEN (IF condition.value.t = "text" /\ strcmp(event_client, condition.value.s) = 0
                THEN 1 ELSE 0)
          ELSE IF condition.operator = "!="
          THEN (IF condition.value.t = "text" /\ strcmp(event_client, condition.value.s) # 0
                THEN 1 ELSE 0)
          ELSE 0)
    ELSE IF condition.operator = "=="
    THEN (IF evaluate_condition_value(condition.variable, vi) = condition.value
          THEN 1 ELSE 0)
    ELSE IF condition.operator = "!="
    THEN (IF evaluate_condition_value(condition.variable, vi) # condition.value
          THEN 1 ELSE 0)
    ELSE 0

\* evaluate_bool_expr for an expression that is one simple condition
evaluate_bool_expr(expr, vi) ==
    IF expr = NoCond THEN 0 ELSE evaluate_condition(expr, vi)

\* condition_result of an If, While or For: bool_expr first, then condition
condition_result(action, vi) ==
    IF action.bool_expr # NoCond THEN evaluate_bool_expr(action.bool_expr, vi)
    ELSE IF action.condition # NoCond THEN evaluate_condition(action.condition, vi)
    ELSE 0

\* the text after leading white space
SkipSpaces(s) ==
    IF \A k \in 1..Len(s) : s[k] = " " THEN <<>>
    ELSE SubSeq(s, CHOOSE k \in 1..Len(s) :
                       s[k] # " " /\ \A j \in 1..(k - 1) : s[j] = " ", Len(s))

\* the one-line If whose action is "return $true" or "return $false" stores
\* "true" or "false" in __return; any other action text leaves it alone
InlineReturn(action_str, old) ==
    IF StartsWith(action_str, <<"r","e","t","u","r","n"," ">>)
    THEN LET return_value == SkipSpaces(SubSeq(action_str, 8, Len(action_str)))
         IN  IF return_value = DollarTrue THEN "true"
             ELSE IF return_value = DollarFalse THEN "false"
             ELSE old
    ELSE old

\* the first return of a boolean the running rule has executed
Reaches(value) ==
    IF reached = "" /\ value = DollarTrue THEN "$true"
    ELSE IF reached = "" /\ value = DollarFalse THEN "$false"
    ELSE reached

\* the loop_increment of a C-style For: %i++ or %i--
Increment(inc, vi) ==
    IF vi.t # "num" THEN vi
    ELSE IF inc = "++" THEN Num(vi.n + 1)
    ELSE IF inc = "--" THEN Num(vi.n - 1)
    ELSE vi

\* the rule bodies of the loaded script
RuleBodies ==
    { <<If(Compare("$true", "", Unset), <<ParseReturn(<<"$","t","r","u","e">>), SendNotice>>, <<>>),
        SendNotice>>,
      <<If(Compare("$true", "", Unset), <<ParseReturn(<<"%","n"," ","*"," ","2">>), SendNotice>>, <<>>),
        SendNotice>>,
      <<SendNotice, ParseReturn(<<"\"","n","o","\"">>), SendNotice>>,
      <<While(Compare("$true", "", Unset), <<SendNotice, Break, SendNotice>>),
        If(Compare("$true", "", Unset), <<SendNotice, SendNotice>>, <<>>)>>,
      <<Break, If(Compare("$false", "", Unset), <<>>, <<Continue, SendNotice>>)>>,
      <<ForC(Num(1), Compare("%i", "!=", Num(3)), "++",
             <<If(Compare("%i", "==", Num(2)), <<Continue>>, <<Break, SendNotice>>),
               SendNotice>>)>>,
      <<While(Compare("$true", "", Unset), <<SendNotice>>)>>,
      <<ForC(Num(1), Compare("%i", "!=", Num(1000000000)), "++", <<>>)>>,
      <<ForC(Num(1), Compare("%i", "!=", Num(3)), "++", <<Continue>>)>>,
      <<ForC(Num(0), Compare("%i", "<", Num(3)), "++", <<SendNotice>>)>>,
      <<Command(<<<<"#","t","e","s","t">>, <<"$","c","l","i","e","n","t","s">>>>), SendNotice>>,
      <<Command(<<<<"#","t","e","s","t">>, <<"$","c","l","i","e","n","t">>>>), SendNotice>>,
      <<If(Compare("$true", "", Unset),
           <<Command(<<<<"$","t","r","u","e","x">>>>), SendNotice>>, <<>>)>>,
      <<While(Compare("$true", "", Unset),
              <<Command(<<<<"$","f","a","l","s","e","!">>>>), SendNotice, Break>>)>>,
      <<ParseRange(<<1, 3>>, <<SendNotice, Continue>>), SendNotice>>,
      <<ParseRange(<<1, 10001>>, <<>>)>>,
      <<ParseRange(<<5>>, <<>>)>> }

\* one walk over a list of actions: the chain of a rule body, the nested or
\* else walk of an If, or the body of a loop
NoWalk == [kind |-> "none", acts |-> <<>>, pc |-> 0, action |-> NoAction,
           phase |-> "body", loop_safety_counter |-> 0, i |-> 0, passes |-> 0]

Walk(kind, acts) == [NoWalk EXCEPT !.kind = kind, !.acts = acts, !.pc = 1]

Loop(kind, action) ==
    [NoWalk EXCEPT !.kind = kind, !.action = action,
                   !.acts = action.nested_actions, !.phase = "head",
                   !.i = action.loop_start]

NoExit == [kind |-> "none", how |-> "none", passes |-> 0, cond |-> NoCond]

NoExec == [type |-> "none", after |-> FALSE, afterError |-> FALSE,
           error |-> FALSE, dispatched |-> FALSE]

\* the engine's state while a step is computed
Machine ==
    [st |-> frames, sb |-> should_break, sc |-> should_continue,
     rv |-> return_val, vi |-> var_i, exit |-> NoExit]

TopOf(m) == m.st[Len(m.st)]
PopOf(m) == [m EXCEPT !.st = SubSeq(@, 1, Len(@) - 1)]
SetTop(m, f) == [m EXCEPT !.st[Len(m.st)] = f]
PushOn(m, f) == [m EXCEPT !.st = @ \o <<f>>]

\* the loop on top is left
Leave(m, how) ==
    LET f == TopOf(m)
        p == PopOf(m)
    IN  IF m.exit.how = "none"
        THEN [p EXCEPT !.exit = [kind |-> f.kind, how |-> how, passes |-> f.passes,
                                 cond |-> IF f.action.bool_expr # NoCond
                                          THEN f.action.bool_expr
                                          ELSE f.action.condition]]
        ELSE p

RECURSIVE Done(_, _)

\* the end of one pass of a While or C-style For body
EndIteration(m) ==
    LET f == TopOf(m)
    IN  IF m.sb = 1 THEN Done(Leave(m, "break"), FALSE)
        ELSE IF m.sc = 1
        THEN SetTop(m, [f EXCEPT !.phase = "head",
                                 !.loop_safety_counter = @ + 1])
        ELSE [SetTop(m, [f EXCEPT !.phase = "head",
                                  !.loop_safety_counter = @ + 1])
                EXCEPT !.vi = IF f.kind = "for"
                              THEN Increment(f.action.loop_increment, m.vi)
                              ELSE m.vi]

\* the end of one pass of a range For body
EndRangeIteration(m) ==
    LET f == TopOf(m)
    IN  SetTop(m, [f EXCEPT !.phase = "head", !.i = @ + f.action.loop_step])

\* the action under the cursor of the walk on top has been executed; hard
\* says that its execute_script_action call returned at once
Done(m, hard) ==
    IF m.st = <<>> THEN m
    ELSE LET f == TopOf(m)
             more == f.pc < Len(f.acts)
             step == SetTop(m, [f EXCEPT !.pc = @ + 1])
         IN  CASE f.kind = "chain" ->
                    IF hard THEN PopOf(m)
                    ELSE IF f.acts[f.pc].type = "US_ACTION_IF"
                    THEN (IF more THEN step ELSE PopOf(m))
                    ELSE IF more /\ m.rv = <<>> THEN step
                    ELSE PopOf(m)
               [] f.kind = "if" ->
                    IF m.rv # <<>> THEN Done(PopOf(m), TRUE)
                    ELSE IF m.sb = 1 \/ m.sc = 1 THEN Done(PopOf(m), FALSE)
                    ELSE IF more THEN step
                    ELSE Done(PopOf(m), FALSE)
               [] f.kind = "else" ->
                    IF m.rv # <<>> THEN Done(PopOf(m), TRUE)
                    ELSE IF more THEN step
                    ELSE Done(PopOf(m), FALSE)
               [] f.kind \in {"while", "for"} ->
                    IF m.rv # <<>> THEN Done(Leave(m, "return"), TRUE)
                    ELSE IF more THEN step
                    ELSE EndIteration(m)
               [] f.kind = "range" ->
                    IF m.rv # <<>> THEN Done(Leave(m, "return"), TRUE)
                    ELSE IF more THEN step
                    ELSE EndRangeIteration(m)

\* the machine state becomes the next state
Becomes(m) ==
    /\ frames' = m.st
    /\ should_break' = m.sb
    /\ should_continue' = m.sc
    /\ return_val' = m.rv
    /\ var_i' = m.vi
    /\ loopExit' = m.exit

\* no action of the chain has been executed
NoTimes(actions) == [p \in 1..Len(actions) |-> 0]

\* one more execution of the action under the cursor, when it is an action
\* of the rule's chain
Counted ==
    IF frames[Len(frames)].kind = "chain"
    THEN [times EXCEPT ![frames[Len(frames)].pc] = @ + 1]
    ELSE times

\* what a step that executes an action of the given type leaves in executed
Executes(type) ==
    [NoExec EXCEPT !.type = type, !.after = returned, !.afterError = aborted]

Running == frames # <<>> /\ frames[Len(frames)].phase = "body"
Cur == frames[Len(frames)].acts[frames[Len(frames)].pc]
InLoopBody == frames[Len(frames)].kind \in {"while", "for"}

\* a matching rule is invoked for an event: execute_script_action on the
\* head of its action chain
execute_scripts_for_event ==
    /\ frames = <<>>
    /\ runs < MaxRuns
    /\ \E body \in RuleBodies :
          /\ frames' = <<Walk("chain", body)>>
          /\ times' = NoTimes(body)
    /\ runs' = runs + 1
    /\ returned' = FALSE
    /\ aborted' = FALSE
    /\ executed' = NoExec
    /\ loopExit' = NoExit
    /\ reached' = ""
    /\ UNCHANGED <<textVars, hostVars, loadVars, fnVars, parseVars, inline_return, gate, should_break, should_continue,
                   return_val, var_i>>

\* the target of a NOTICE: the client of that name, and the client of the
\* event when no client has that name
NoticeTarget(target_name) ==
    IF Str(target_name) \in Nicks THEN Str(target_name) ELSE event_client

\* case US_ACTION_SENDNOTICE: with two or more arguments a NOTICE is sent; it
\* also stands for every action without control flow
ExecSendNotice ==
    /\ Running
    /\ Cur.type = "US_ACTION_SENDNOTICE"
    /\ Becomes(Done(Machine, FALSE))
    /\ executed' = Executes(Cur.type)
    /\ times' = Counted
    /\ notices' = IF Cur.argc >= 2
                  THEN Append(notices,
                              [target |-> NoticeTarget(substitute_variables(Cur.args[1])),
                               message |-> substitute_variables(
                                   IF Cur.argc >= 3 THEN Cur.args[3] ELSE Cur.args[2])])
                  ELSE notices
    /\ UNCHANGED <<textVars, hostVars, loadVars, fnVars, layout, event_client, gateVars, returned, aborted, runs>>

\* case US_ACTION_COMMAND: the arguments are substituted one by one; at the
\* first SYNTAX_ERROR the call returns, otherwise the command is handed on
\* (deferred or dispatched) and the walk goes on
ExecCommand ==
    /\ Running
    /\ Cur.type = "US_ACTION_COMMAND"
    /\ IF \E i \in 1..Cur.argc : substitute_variables(Cur.args[i]) = SYNTAX_ERROR
       THEN /\ Becomes(Done(Machine, TRUE))
            /\ executed' = [Executes(Cur.type) EXCEPT !.error = TRUE]
            /\ times' = Counted
            /\ aborted' = TRUE
       ELSE /\ Becomes(Done(Machine, FALSE))
            /\ executed' = [Executes(Cur.type) EXCEPT !.dispatched = TRUE]
            /\ times' = Counted
            /\ UNCHANGED aborted
    /\ UNCHANGED <<textVars, hostVars, loadVars, fnVars, parseVars, gateVars, returned, runs>>

\* case US_ACTION_BREAK, reached through execute_script_action
ExecBreak ==
    /\ Running
    /\ Cur.type = "US_ACTION_BREAK"
    /\ ~InLoopBody
    /\ Becomes(Done([Machine EXCEPT !.sb = 1], FALSE))
    /\ executed' = Executes(Cur.type)
    /\ times' = Counted
    /\ UNCHANGED <<textVars, hostVars, loadVars, fnVars, parseVars, gateVars, returned, aborted, runs>>

\* case US_ACTION_CONTINUE, reached through execute_script_action
ExecContinue ==
    /\ Running
    /\ Cur.type = "US_ACTION_CONTINUE"
    /\ ~InLoopBody
    /\ Becomes(Done([Machine EXCEPT !.sc = 1], FALSE))
    /\ executed' = Executes(Cur.type)
    /\ times' = Counted
    /\ UNCHANGED <<textVars, hostVars, loadVars, fnVars, parseVars, gateVars, returned, aborted, runs>>

\* the walk of a While or C-style For body meets a Break: the flag is set and
\* the pass ends
LoopBreak ==
    /\ Running
    /\ InLoopBody
    /\ Cur.type = "US_ACTION_BREAK"
    /\ Becomes(EndIteration([Machine EXCEPT !.sb = 1]))
    /\ executed' = Executes(Cur.type)
    /\ times' = Counted
    /\ UNCHANGED <<textVars, hostVars, loadVars, fnVars, parseVars, gateVars, returned, aborted, runs>>

\* the walk of a While or C-style For body meets a Continue
LoopContinue ==
    /\ Running
    /\ InLoopBody
    /\ Cur.type = "US_ACTION_CONTINUE"
    /\ Becomes(EndIteration([Machine EXCEPT !.sc = 1]))
    /\ executed' = Executes(Cur.type)
    /\ times' = Counted
    /\ UNCHANGED <<textVars, hostVars, loadVars, fnVars, parseVars, gateVars, returned, aborted, runs>>

\* case US_ACTION_RETURN: __return__ is set when the action has a value, and
\* the call returns without running action->next
ExecReturn ==
    /\ Running
    /\ Cur.type = "US_ACTION_RETURN"
    /\ Becomes(Done([Machine EXCEPT !.rv = IF Cur.argc >= 1 /\ Cur.args # <<>>
                                          THEN <<Cur.args[1]>> ELSE @], TRUE))
    /\ executed' = Executes(Cur.type)
    /\ times' = Counted
    /\ returned' = TRUE
    /\ reached' = IF Cur.argc >= 1 THEN Reaches(Cur.args[1]) ELSE reached
    /\ UNCHANGED <<textVars, hostVars, loadVars, fnVars, parseVars, inline_return, gate, aborted, runs>>

\* case US_ACTION_IF: the branch the condition selects is walked
ExecIf ==
    /\ Running
    /\ Cur.type = "US_ACTION_IF"
    /\ IF condition_result(Cur, var_i) = 1
       THEN IF Cur.argc > 0
            THEN Becomes(Done(Machine, FALSE))
            ELSE IF Cur.nested_actions # <<>>
            THEN Becomes(PushOn(Machine, Walk("if", Cur.nested_actions)))
            ELSE Becomes(Done(Machine, FALSE))
       ELSE IF Cur.else_actions # <<>>
            THEN Becomes(PushOn(Machine, Walk("else", Cur.else_actions)))
            ELSE Becomes(Done(Machine, FALSE))
    /\ inline_return' = IF condition_result(Cur, var_i) = 1 /\ Cur.argc > 0
                        THEN InlineReturn(Cur.args[1], inline_return)
                        ELSE inline_return
    /\ reached' = IF condition_result(Cur, var_i) = 1 /\ Cur.argc > 0
                  THEN LET r == InlineReturn(Cur.args[1], "")
                       IN  IF r = "true" THEN Reaches(DollarTrue)
                           ELSE IF r = "false" THEN Reaches(DollarFalse)
                           ELSE reached
                  ELSE reached
    /\ executed' = Executes(Cur.type)
    /\ times' = Counted
    /\ UNCHANGED <<textVars, hostVars, loadVars, fnVars, parseVars, gate, returned, aborted, runs>>

\* case US_ACTION_WHILE
ExecWhile ==
    /\ Running
    /\ Cur.type = "US_ACTION_WHILE"
    /\ Becomes(PushOn(Machine, Loop("while", Cur)))
    /\ executed' = Executes(Cur.type)
    /\ times' = Counted
    /\ UNCHANGED <<textVars, hostVars, loadVars, fnVars, parseVars, gateVars, returned, aborted, runs>>

\* case US_ACTION_FOR with loop_init: the initialisation of the C-style form
ExecFor ==
    /\ Running
    /\ Cur.type = "US_ACTION_FOR"
    /\ Cur.loop_init # Unset
    /\ Becomes(PushOn([Machine EXCEPT !.vi = Cur.loop_init], Loop("for", Cur)))
    /\ executed' = Executes(Cur.type)
    /\ times' = Counted
    /\ UNCHANGED <<textVars, hostVars, loadVars, fnVars, parseVars, gateVars, returned, aborted, runs>>

\* case US_ACTION_FOR with loop_var only: the range form
ExecForRange ==
    /\ Running
    /\ Cur.type = "US_ACTION_FOR"
    /\ Cur.loop_init = Unset
    /\ Cur.loop_var # NULL
    /\ Becomes(PushOn(Machine, Loop("range", Cur)))
    /\ executed' = Executes(Cur.type)
    /\ times' = Counted
    /\ UNCHANGED <<textVars, hostVars, loadVars, fnVars, parseVars, gateVars, returned, aborted, runs>>

\* the passes a loop has made, counted up to one past the cap
CountPass(n) == IF n > MAX_LOOP_ITERATIONS THEN n ELSE n + 1

\* the head of a While or C-style For: the cap, the condition, and the flags
\* cleared before the body
LoopHead ==
    /\ frames # <<>>
    /\ frames[Len(frames)].kind \in {"while", "for"}
    /\ frames[Len(frames)].phase = "head"
    /\ LET f == frames[Len(frames)]
       IN  IF ~(f.loop_safety_counter < MAX_LOOP_ITERATIONS)
           THEN Becomes(Done(Leave(Machine, "cap"), FALSE))
           ELSE IF condition_result(f.action, var_i) = 0
           THEN Becomes(Done(Leave(Machine, "cond"), FALSE))
           ELSE LET g == [f EXCEPT !.passes = CountPass(@), !.phase = "body", !.pc = 1]
                    m == SetTop([Machine EXCEPT !.sb = 0, !.sc = 0], g)
                IN  IF f.acts = <<>> THEN Becomes(EndIteration(m))
                    ELSE Becomes(m)
    /\ executed' = NoExec
    /\ UNCHANGED times
    /\ UNCHANGED <<textVars, hostVars, loadVars, fnVars, parseVars, gateVars, returned, aborted, runs>>

\* the head of a range For: i <= loop_end, and the loop variable is set
RangeHead ==
    /\ frames # <<>>
    /\ frames[Len(frames)].kind = "range"
    /\ frames[Len(frames)].phase = "head"
    /\ LET f == frames[Len(frames)]
       IN  IF ~(f.i <= f.action.loop_end)
           THEN Becomes(Done(Leave(Machine, "cond"), FALSE))
           ELSE LET g == [f EXCEPT !.passes = CountPass(@), !.phase = "body", !.pc = 1]
                    m == SetTop([Machine EXCEPT !.vi = f.i], g)
                IN  IF f.acts = <<>> THEN Becomes(EndRangeIteration(m))
                    ELSE Becomes(m)
    /\ executed' = NoExec
    /\ UNCHANGED times
    /\ UNCHANGED <<textVars, hostVars, loadVars, fnVars, parseVars, gateVars, returned, aborted, runs>>

----
(***************************************************************************)
(* The join gate: obbyscript_can_join runs the CAN_JOIN rule whose target  *)
(* matches the channel and turns what it finds into the hook's result.     *)
(***************************************************************************)
NoGate == [result |-> "none"]

Rule(target, actions) == [target |-> target, actions |-> actions]

\* the CAN_JOIN rule of the loaded script
GateRules ==
    { Rule("*", <<ParseReturn(DollarFalse)>>),
      Rule("*", <<ParseReturn(DollarTrue)>>),
      Rule("#test", <<SendNotice, ParseReturn(DollarFalse)>>),
      Rule("#test", <<SendNotice, ParseReturn(DollarTrue), SendNotice>>),
      Rule("*", <<SendNotice, SendNotice, ParseReturn(DollarFalse)>>),
      Rule("*", <<SendNotice, ParseReturn(<<"\"","n","o","\"">>), SendNotice>>),
      Rule("*", <<InlineIf(Compare("$true", "", Unset),
                           <<"r","e","t","u","r","n"," ","$","f","a","l","s","e">>)>>),
      Rule("*", <<InlineIf(Compare("$true", "", Unset),
                           <<"r","e","t","u","r","n"," ","$","t","r","u","e">>),
                  SendNotice>>),
      Rule("*", <<If(Compare("$true", "", Unset), <<ParseReturn(DollarFalse)>>, <<>>)>>),
      Rule("*", <<If(Compare("$false", "", Unset), <<>>, <<ParseReturn(DollarTrue)>>),
                  SendNotice>>),
      Rule("#other", <<ParseReturn(DollarFalse)>>) }

\* the frame of obbyscript_can_join: pc is the position of its cursor
\* "action" in the rule's chain
GateFrame(actions, pc, phase) ==
    [NoWalk EXCEPT !.kind = "can_join", !.acts = actions, !.pc = pc, !.phase = phase]

\* execute_script_action(action, ...) on the k-th action of a chain: the
\* call walks the chain from there on
ChainFrom(actions, k) == [Walk("chain", actions) EXCEPT !.pc = k]

InGate(phase) ==
    /\ frames # <<>>
    /\ frames[Len(frames)].kind = "can_join"
    /\ frames[Len(frames)].phase = phase

\* obbyscript_can_join returns
GateReturns(result) ==
    /\ frames' = <<>>
    /\ gate' = [result |-> result]

\* the hook is called for a client that joins #test: a rule whose target is
\* neither * nor the channel's name is skipped and the join is allowed;
\* otherwise __return is cleared and the first action is executed
obbyscript_can_join ==
    /\ frames = <<>>
    /\ runs < MaxRuns
    /\ runs' = runs + 1
    /\ returned' = FALSE
    /\ aborted' = FALSE
    /\ executed' = NoExec
    /\ loopExit' = NoExit
    /\ reached' = ""
    /\ \E rule \in GateRules :
          IF strcmp(rule.target, "*") = 0 \/ strcmp(rule.target, "#test") = 0
          THEN /\ inline_return' = ""
               /\ frames' = <<GateFrame(rule.actions, 1, "check"),
                              ChainFrom(rule.actions, 1)>>
               /\ gate' = NoGate
               /\ times' = NoTimes(rule.actions)
          ELSE /\ GateReturns("allow")
               /\ UNCHANGED inline_return
               /\ times' = <<>>
    /\ UNCHANGED <<textVars, hostVars, loadVars, fnVars, parseVars, should_break, should_continue, return_val, var_i>>

\* after execute_script_action(action) has returned: __return decides when
\* it holds "true" or "false"; otherwise the cursor moves to the next action,
\* which is inspected: a Return of $false or $true decides, any other Return
\* is passed over, and every other action is executed.  (The branch for an If
\* requires action->condition, which the parser leaves NULL for every If of
\* a rule's chain, so such an If is executed like any other action.)
CanJoinCheck ==
    /\ InGate("check")
    /\ LET f == frames[Len(frames)]
           next == f.pc + 1
       IN  IF inline_return \in {"false", "true"}
           THEN GateReturns(IF inline_return = "false" THEN "block" ELSE "allow")
           ELSE IF next > Len(f.acts)
           THEN GateReturns("allow")
           ELSE IF f.acts[next].type = "US_ACTION_RETURN" /\ f.acts[next].argc > 0
           THEN IF f.acts[next].args[1] = DollarFalse THEN GateReturns("block")
                ELSE IF f.acts[next].args[1] = DollarTrue THEN GateReturns("allow")
                ELSE IF next + 1 > Len(f.acts) THEN GateReturns("allow")
                ELSE /\ frames' = <<GateFrame(f.acts, next + 1, "check"),
                                    ChainFrom(f.acts, next + 1)>>
                     /\ UNCHANGED gate
           ELSE /\ frames' = <<GateFrame(f.acts, next, "advance"),
                               ChainFrom(f.acts, next)>>
                /\ UNCHANGED gate
    /\ executed' = NoExec
    /\ UNCHANGED times
    /\ loopExit' = NoExit
    /\ UNCHANGED <<textVars, hostVars, loadVars, fnVars, parseVars, should_break, should_continue, return_val, var_i,
                   returned, aborted, runs, inline_return, reached>>

\* after the inspected action has been executed: the cursor moves on, and
\* the loop executes the action it finds
CanJoinAdvance ==
    /\ InGate("advance")
    /\ LET f == frames[Len(frames)]
           next == f.pc + 1
       IN  IF next > Len(f.acts)
           THEN GateReturns("allow")
           ELSE /\ frames' = <<GateFrame(f.acts, next, "check"),
                               ChainFrom(f.acts, next)>>
                /\ UNCHANGED gate
    /\ executed' = NoExec
    /\ UNCHANGED times
    /\ loopExit' = NoExit
    /\ UNCHANGED <<textVars, hostVars, loadVars, fnVars, parseVars, should_break, should_continue, return_val, var_i,
                   returned, aborted, runs, inline_return, reached>>

\* the actions of the START rule of the loaded script
StartRules ==
    { <<SendNotice>>,
      <<SendNotice, SendNotice>>,
      <<SendNotice, SendNotice, SendNotice>>,
      <<SendNotice, ParseReturn(DollarTrue), SendNotice>> }

\* the frame of execute_start_events: pc is the position of its cursor
\* "action" in the rule's chain
StartFrame(actions, pc) ==
    [NoWalk EXCEPT !.kind = "start", !.acts = actions, !.pc = pc, !.phase = "advance"]

\* the START rule is run after a load: execute_script_action on the first
\* action of its chain
execute_start_events ==
    /\ frames = <<>>
    /\ runs < MaxRuns
    /\ runs' = runs + 1
    /\ returned' = FALSE
    /\ aborted' = FALSE
    /\ executed' = NoExec
    /\ loopExit' = NoExit
    /\ reached' = ""
    /\ \E actions \in StartRules :
          /\ frames' = <<StartFrame(actions, 1), ChainFrom(actions, 1)>>
          /\ times' = NoTimes(actions)
    /\ UNCHANGED <<textVars, hostVars, loadVars, fnVars, parseVars, should_break, should_continue,
                   return_val, var_i, inline_return, gate>>

\* after execute_script_action(action) has returned: action = action->next,
\* and the loop executes the action it finds
StartAdvance ==
    /\ frames # <<>>
    /\ frames[Len(frames)].kind = "start"
    /\ LET f == frames[Len(frames)]
           next == f.pc + 1
       IN  frames' = IF next > Len(f.acts) THEN <<>>
                     ELSE <<StartFrame(f.acts, next), ChainFrom(f.acts, next)>>
    /\ executed' = NoExec
    /\ loopExit' = NoExit
    /\ UNCHANGED <<textVars, hostVars, loadVars, fnVars, parseVars, should_break, should_continue,
                   return_val, var_i, returned, aborted, runs, inline_return, reached, gate, times>>

----
(***************************************************************************)
(* parse_action_block: the body of a rule is parsed line by line.  The     *)
(* model covers bodies of sendnotice, return, break and continue lines and *)
(* of If statements that are not nested in another block, without          *)
(* "else if".                                                              *)
(***************************************************************************)
\* strstr: the first position of p in s, 0 when there is none
Find(s, p) ==
    LET K == {k \in 1..(Len(s) - Len(p) + 1) : SubSeq(s, k, k + Len(p) - 1) = p}
    IN  IF K = {} THEN 0 ELSE CHOOSE k \in K : \A j \in K : k <= j

\* the text without trailing white space
TrimRight(s) ==
    IF \A k \in 1..Len(s) : s[k] = " " THEN <<>>
    ELSE SubSeq(s, 1, CHOOSE k \in 1..Len(s) :
                          s[k] # " " /\ \A j \in (k + 1)..Len(s) : s[j] = " ")

Trim(s) == TrimRight(SkipSpaces(s))

\* the value of a condition: a quoted text without its quotes, or the rest
Unquoted(value_start) ==
    IF value_start # <<>> /\ value_start[1] = "\""
    THEN LET r == Tail(value_start)
             q == Find(r, <<"\"">>)
         IN  IF q = 0 THEN r ELSE SubSeq(r, 1, q - 1)
    ELSE value_start

\* parse_simple_condition for a text that has none of the operators looked
\* for before "==": "variable == value", or a variable alone
parse_simple_condition(cond_str) ==
    LET trimmed == Trim(cond_str)
        op_pos == Find(trimmed, <<"=","=">>)
    IN  IF op_pos = 0 THEN Compare(Str(trimmed), "", Unset)
        ELSE Compare(Str(TrimRight(SubSeq(trimmed, 1, op_pos - 1))), "==",
                     Text(Str(Unquoted(SkipSpaces(
                         SubSeq(trimmed, op_pos + 2, Len(trimmed)))))))

RECURSIVE Tokens(_)
\* the arguments of a sendnotice line: quoted texts and words
Tokens(p) ==
    IF p = <<>> THEN <<>>
    ELSE IF p[1] = "\""
    THEN LET r == Tail(p)
             q == Find(r, <<"\"">>)
             token == IF q = 0 THEN r ELSE SubSeq(r, 1, q - 1)
             rest == IF q = 0 THEN <<>> ELSE SubSeq(r, q + 1, Len(r))
         IN  (IF token = <<>> THEN <<>> ELSE <<token>>) \o Tokens(SkipSpaces(rest))
    ELSE LET q == Find(p, <<" ">>)
             token == IF q = 0 THEN p ELSE SubSeq(p, 1, q - 1)
             rest == IF q = 0 THEN <<>> ELSE SubSeq(p, q, Len(p))
         IN  <<token>> \o Tokens(SkipSpaces(rest))

\* "sendnotice <target> <message>"
ParseSendNotice(current_line) ==
    LET tokens == Tokens(SkipSpaces(SubSeq(current_line, 12, Len(current_line))))
        args == SubSeq(tokens, 1, IF Len(tokens) < 10 THEN Len(tokens) ELSE 10)
    IN  [SendNotice EXCEPT !.argc = Len(args), !.args = args]

\* "if (<condition>) {" or "if (<condition>) <action>": the condition ends at
\* the last ")" before the "{", or at the first ")" when there is no "{"
ParseIf(current_line) ==
    LET brace_pos == Find(current_line, <<"{">>)
        closing == {k \in 6..(brace_pos - 1) : current_line[k] = ")"}
        condition_end ==
            IF closing # {} THEN CHOOSE k \in closing : \A j \in closing : j <= k
            ELSE Find(current_line, <<")">>)
        cond == parse_simple_condition(SubSeq(current_line, 5, condition_end - 1))
        action_start == SkipSpaces(SubSeq(current_line, condition_end + 1,
                                          Len(current_line)))
    IN  IF condition_end = 0 THEN [NoAction EXCEPT !.type = "US_ACTION_IF"]
        ELSE IF action_start # <<>> /\ action_start[1] = "{" THEN If(cond, <<>>, <<>>)
        ELSE IF action_start # <<>> THEN InlineIf(cond, action_start)
        ELSE [NoAction EXCEPT !.type = "US_ACTION_IF", !.bool_expr = cond]

\* strtok_r with " ": the pieces between runs of spaces
RECURSIVE Words(_)
Words(p) ==
    LET s == SkipSpaces(p)
        q == Find(s, <<" ">>)
    IN  IF s = <<>> THEN <<>>
        ELSE IF q = 0 THEN <<s>>
        ELSE <<SubSeq(s, 1, q - 1)>> \o Words(SubSeq(s, q, Len(s)))

RECURSIVE QuotedArg(_, _)
\* the words after an opening quote are joined with one space up to the
\* first word that ends with a quote; the result is the argument and the
\* words left
QuotedArg(quoted_arg, tokens) ==
    IF tokens = <<>> THEN [arg |-> quoted_arg, rest |-> <<>>]
    ELSE LET joined == quoted_arg \o <<" ">> \o tokens[1]
         IN  IF tokens[1][Len(tokens[1])] = "\""
             THEN [arg |-> SubSeq(joined, 1, Len(joined) - 1), rest |-> Tail(tokens)]
             ELSE QuotedArg(joined, Tail(tokens))

RECURSIVE CommandArgs(_)
\* the arguments of a command line; the model covers lines that have no
\* word made of a quote alone
CommandArgs(tokens) ==
    IF tokens = <<>> THEN <<>>
    ELSE IF tokens[1][1] = "\""
    THEN LET quoted_arg == Tail(tokens[1])
         IN  IF quoted_arg[Len(quoted_arg)] = "\""
             THEN <<SubSeq(quoted_arg, 1, Len(quoted_arg) - 1)>> \o CommandArgs(Tail(tokens))
             ELSE LET q == QuotedArg(quoted_arg, Tail(tokens))
                  IN  <<q.arg>> \o CommandArgs(q.rest)
    ELSE <<tokens[1]>> \o CommandArgs(Tail(tokens))

isupper(c) == \E i \in 1..26 : UpperLetters[i] = c

\* "<command> <argument> ...", at most 20 arguments
ParseCommand(current_line) ==
    LET tokens == Words(current_line)
        all == CommandArgs(Tail(tokens))
        args == SubSeq(all, 1, IF Len(all) < 20 THEN Len(all) ELSE 20)
    IN  [NoAction EXCEPT !.type = "US_ACTION_COMMAND", !.function = tokens[1],
                         !.argc = Len(args), !.args = args]

\* the action of a line that is not an If; NoAction when the line is none
ParseLine(current_line) ==
    IF StartsWith(current_line, <<"s","e","n","d","n","o","t","i","c","e"," ">>)
    THEN ParseSendNotice(current_line)
    ELSE IF current_line = <<"b","r","e","a","k">> THEN Break
    ELSE IF current_line = <<"c","o","n","t","i","n","u","e">> THEN Continue
    ELSE IF StartsWith(current_line, <<"r","e","t","u","r","n"," ">>)
    THEN ParseReturn(SkipSpaces(SubSeq(current_line, 8, Len(current_line))))
    ELSE IF isupper(current_line[1]) \/ Find(current_line, <<" ">>) # 0
    THEN ParseCommand(current_line)
    ELSE NoAction

\* the parser's state between two lines; current_if_action is the position
\* of the If in actions, 0 for NULL
NoParse == [actions |-> <<>>, current_if_action |-> 0,
            nested_head |-> <<>>, else_head |-> <<>>,
            inside_if_block |-> 0, inside_else_block |-> 0,
            inside_loop_block |-> 0, current_loop_action |-> 0,
            loop_nested_head |-> <<>>]

\* a line that starts with "}" while an If or Else block is open: the block
\* is stored in the If.  After an If block the NEXT line is looked at for
\* "else {" or "else"; when it is neither, the If is closed and the parser
\* moves on to the line after that one.  The result is the state and the
\* position of the line parsed next.
CloseBlock(lines, k, st) ==
    IF st.inside_else_block = 1
    THEN [k |-> k + 1,
          st |-> [st EXCEPT !.actions =
                     IF st.current_if_action = 0 THEN st.actions
                     ELSE [st.actions EXCEPT
                              ![st.current_if_action].else_actions = st.else_head],
                     !.current_if_action = 0, !.nested_head = <<>>, !.else_head = <<>>,
                     !.inside_if_block = 0, !.inside_else_block = 0]]
    ELSE LET s1 == [st EXCEPT !.actions =
                        IF st.current_if_action = 0 THEN st.actions
                        ELSE [st.actions EXCEPT
                                 ![st.current_if_action].nested_actions = st.nested_head],
                              !.nested_head = <<>>]
             closed == [s1 EXCEPT !.inside_if_block = 0, !.current_if_action = 0]
             opened == [s1 EXCEPT !.inside_else_block = 1, !.else_head = <<>>]
         IN  IF k + 1 > Len(lines) THEN [k |-> k + 1, st |-> closed]
             ELSE LET trimmed_next == SkipSpaces(lines[k + 1])
                  IN  IF \/ StartsWith(trimmed_next, <<"e","l","s","e"," ","{">>)
                         \/ StartsWith(trimmed_next, <<"e","l","s","e","{">>)
                      THEN [k |-> k + 2, st |-> opened]
                      ELSE IF trimmed_next = <<"e","l","s","e">>
                      THEN IF k + 2 > Len(lines) THEN [k |-> k + 3, st |-> closed]
                           ELSE IF SkipSpaces(lines[k + 2]) = <<"{">>
                           THEN [k |-> k + 3, st |-> opened]
                           ELSE [k |-> k + 3, st |-> closed]
                      ELSE [k |-> k + 2, st |-> closed]

\* an action is added to the Else block, to the If block, to the body of the
\* loop, or to the rule
AddAction(st, action) ==
    IF st.inside_else_block = 1 THEN [st EXCEPT !.else_head = Append(@, action)]
    ELSE IF st.inside_if_block = 1 THEN [st EXCEPT !.nested_head = Append(@, action)]
    ELSE IF st.inside_loop_block = 1 THEN [st EXCEPT !.loop_nested_head = Append(@, action)]
    ELSE [st EXCEPT !.actions = Append(@, action)]

\* a line that starts with "}" while a loop is open and no If or Else block
\* is: the body is stored in the loop
CloseLoop(st) ==
    [st EXCEPT !.actions =
                   IF st.current_loop_action = 0 THEN st.actions
                   ELSE [st.actions EXCEPT
                            ![st.current_loop_action].nested_actions = st.loop_nested_head],
               !.inside_loop_block = 0, !.current_loop_action = 0,
               !.loop_nested_head = <<>>]

\* "while (<condition>) {" and "for (<head>) {": the action of the loop, without
\* its condition and its head
ParseLoop(current_line) ==
    IF StartsWith(current_line, <<"w","h","i","l","e"," ","(">>)
    THEN [NoAction EXCEPT !.type = "US_ACTION_WHILE", !.function = <<"w","h","i","l","e">>]
    ELSE [NoAction EXCEPT !.type = "US_ACTION_FOR", !.function = <<"f","o","r">>]

\* the loop is added to the list of the rule whatever block is open, and its
\* body is collected from the next line on
OpenLoop(st, action) ==
    [st EXCEPT !.actions = Append(@, action),
               !.inside_loop_block = 1,
               !.current_loop_action = Len(st.actions) + 1,
               !.loop_nested_head = <<>>]

\* one pass of the loop over the lines, for line k: the state after it and
\* the position of the line parsed next.  An If that opens a block is
\* modelled where no block and no loop is open.
ParseStep(lines, k, st) ==
    LET current_line == SkipSpaces(lines[k])
    IN  IF current_line = <<>> \/ StartsWith(current_line, <<"/","/">>)
        THEN [k |-> k + 1, st |-> st]
        ELSE IF /\ current_line[1] = "}"
                /\ st.inside_loop_block = 1
                /\ st.inside_if_block = 0 /\ st.inside_else_block = 0
        THEN [k |-> k + 1, st |-> CloseLoop(st)]
        ELSE IF current_line[1] = "}"
                /\ (st.inside_if_block = 1 \/ st.inside_else_block = 1)
        THEN CloseBlock(lines, k, st)
        ELSE IF StartsWith(current_line, <<"i","f"," ","(">>)
        THEN LET action == ParseIf(current_line)
             IN  IF action.argc = 0 /\ Find(current_line, <<"{">>) # 0
                 THEN [k |-> k + 1,
                       st |-> [st EXCEPT !.actions = Append(@, action),
                                         !.current_if_action = Len(st.actions) + 1,
                                         !.inside_if_block = 1,
                                         !.nested_head = <<>>, !.else_head = <<>>]]
                 ELSE [k |-> k + 1, st |-> AddAction(st, action)]
        ELSE IF \/ StartsWith(current_line, <<"w","h","i","l","e"," ","(">>)
                \/ StartsWith(current_line, <<"f","o","r"," ","(">>)
        THEN [k |-> k + 1, st |-> OpenLoop(st, ParseLoop(current_line))]
        ELSE IF ParseLine(current_line) # NoAction
        THEN [k |-> k + 1, st |-> AddAction(st, ParseLine(current_line))]
        ELSE [k |-> k + 1, st |-> st]

RECURSIVE ParseFrom(_, _, _)
\* the loop over the lines, from line k on
ParseFrom(lines, k, st) ==
    IF k > Len(lines) THEN st.actions
    ELSE LET c == ParseStep(lines, k, st) IN ParseFrom(lines, c.k, c.st)

parse_action_block(content) == ParseFrom(content, 1, NoParse)

IfBob == <<" "," "," "," ","i","f"," ","(","$","c","l","i","e","n","t",".","n","a","m","e"," ","=","="," ","\"","b","o","b","\"",")"," ","{">>
HelloBob == <<" "," "," "," "," "," ","s","e","n","d","n","o","t","i","c","e"," ","$","c","l","i","e","n","t"," ","\"","h","e","l","l","o"," ","b","o","b","\"">>
WhoAreYou == <<" "," "," "," "," "," ","s","e","n","d","n","o","t","i","c","e"," ","$","c","l","i","e","n","t"," ","\"","w","h","o"," ","a","r","e"," ","y","o","u","\"">>
Welcome == <<" "," "," "," ","s","e","n","d","n","o","t","i","c","e"," ","$","c","l","i","e","n","t"," ","\"","w","e","l","c","o","m","e","\"">>

\* the bodies a PRIVMSG rule is written with: "} else {" on one line, "}" and
\* "else {" on two lines, "else" and "{" on their own lines, an If without
\* Else, an Else of two lines, "else{", a comment and a one-line If, and an
\* empty If block
Layouts ==
    { <<IfBob, HelloBob, <<" "," "," "," ","}"," ","e","l","s","e"," ","{">>, WhoAreYou, <<"}">>>>,
      <<IfBob, HelloBob, <<"}">>, <<" "," "," "," ","e","l","s","e"," ","{">>, WhoAreYou, <<"}">>>>,
      <<IfBob, HelloBob, <<"}">>, <<"e","l","s","e">>, <<"{">>, WhoAreYou, <<"}">>>>,
      <<IfBob, HelloBob, <<"}">>, Welcome>>,
      <<IfBob, HelloBob, <<"}">>, <<"e","l","s","e","{">>, WhoAreYou, Welcome, <<"}">>, Welcome>>,
      <<<<"/","/"," ","g","r","e","e","t">>, <<"i","f"," ","(","$","c","l","i","e","n","t",".","n","a","m","e"," ","=","="," ","\"","b","o","b","\"",")"," ","s","e","n","d","n","o","t","i","c","e"," ","$","c","l","i","e","n","t"," ","\"","h","e","l","l","o"," ","b","o","b","\"">>, Welcome>>,
      <<Welcome, IfBob, <<"}">>, <<"r","e","t","u","r","n"," ","$","t","r","u","e">>, Welcome>>,
      <<IfBob, HelloBob, <<" "," "," "," ","}"," ","e","l","s","e"," ","{">>, WhoAreYou, Welcome, <<"}">>>> }

\* the host calls the PRIVMSG hook for a message of a live client: the rule
\* on PRIVMSG:*: matches and its actions are executed
obbyscript_usermsg ==
    /\ frames = <<>>
    /\ runs < MaxRuns
    /\ runs' = runs + 1
    /\ \E nick \in Nicks : event_client' = nick
    /\ frames' = IF parse_action_block(layout) = <<>> THEN <<>>
                 ELSE <<Walk("chain", parse_action_block(layout))>>
    /\ notices' = <<>>
    /\ times' = NoTimes(parse_action_block(layout))
    /\ returned' = FALSE
    /\ aborted' = FALSE
    /\ executed' = NoExec
    /\ loopExit' = NoExit
    /\ reached' = ""
    /\ UNCHANGED <<textVars, hostVars, loadVars, fnVars, layout, inline_return, gate, should_break,
                   should_continue, return_val, var_i>>

----
(***************************************************************************)
(* The configuration run and the unloading of the module.                  *)
(***************************************************************************)
ScriptFiles ==
    { ScriptFile(<<Function("$greet", "sendnotice hello")>>, <<Cap("away-notify")>>, {KICK}),
      ScriptFile(<<Function("$greet", "sendnotice goodbye")>>, <<Break>>, {KICK}),
      ScriptFile(<<>>, <<Continue>>, {KILL}),
      ScriptFile(<<Function("$warn", "sendnotice careful")>>, <<>>, {KICK}) }

NoFunction == Function(NULL, NULL)

\* find_function on a table
find_function(table, name) ==
    IF \E i \in 1..Len(table) : table[i].name = name
    THEN table[CHOOSE i \in 1..Len(table) :
                   /\ table[i].name = name
                   /\ \A j \in 1..(i - 1) : table[j].name # name]
    ELSE NoFunction

\* add_function: a name the table has keeps the entry it has
add_function(table, func) ==
    IF find_function(table, func.name) # NoFunction THEN table
    ELSE <<func>> \o table

RECURSIVE LoadFunctions(_, _)
\* the calls of add_function that parsing a file makes, in file order
LoadFunctions(functions, table) ==
    IF functions = <<>> THEN table
    ELSE LoadFunctions(Tail(functions), add_function(table, Head(functions)))

\* add_pending_cap
add_pending_cap(caps, cap_name) ==
    IF cap_name = "" \/ \E i \in 1..Len(caps) : caps[i] = cap_name THEN caps
    ELSE <<cap_name>> \o caps

RECURSIVE StartCaps(_, _)
\* the Cap actions of a START rule, run without a client
StartCaps(actions, caps) ==
    IF actions = <<>> THEN caps
    ELSE StartCaps(Tail(actions),
                   IF Head(actions).type = "US_ACTION_CAP" /\ Head(actions).argc >= 1
                   THEN add_pending_cap(caps, Head(actions).args[1])
                   ELSE caps)

StartHas(actions, type) == \E i \in 1..Len(actions) : actions[i].type = type

\* obbyscript_configrun: frees the script files, loads the configured ones,
\* runs their START rules and registers the pending capabilities
obbyscript_configrun ==
    /\ ~crashed
    /\ ~unloaded
    /\ HostIdle
    /\ frames = <<>>
    /\ reloads < MaxReloads
    /\ \E file \in ScriptFiles :
        /\ script_files' = file
        /\ script' = file.commands
        /\ global_functions' = LoadFunctions(file.functions, global_functions)
        /\ pending_caps' = StartCaps(file.start, pending_caps)
        /\ should_break' = (IF StartHas(file.start, "US_ACTION_BREAK") THEN 1 ELSE should_break)
        /\ should_continue' =
               (IF StartHas(file.start, "US_ACTION_CONTINUE") THEN 1 ELSE should_continue)
    /\ reloads' = reloads + 1
    /\ blocked' = FALSE
    /\ lastDispatch' = NoDispatch
    /\ chanRead' = NoRead
    /\ lost' = FALSE
    /\ UNCHANGED <<textVars, gateVars, parseVars, fnVars, unloaded, liveClients, liveChannels, stack,
                   deferred_actions, executing_deferred_actions, in_join_context,
                   crashed, events, cmds, frames, return_val, var_i, returned,
                   aborted, executed, times, loopExit, runs>>

\* MOD_UNLOAD: frees the script files, the functions and the pending
\* capabilities; the host removes the hooks and the timer of the module
MOD_UNLOAD ==
    /\ ~crashed
    /\ ~unloaded
    /\ HostIdle
    /\ frames = <<>>
    /\ reloads > 0
    /\ script_files' = NoFile
    /\ script' = {}
    /\ global_functions' = <<>>
    /\ pending_caps' = <<>>
    /\ unloaded' = TRUE
    /\ blocked' = FALSE
    /\ lastDispatch' = NoDispatch
    /\ chanRead' = NoRead
    /\ lost' = FALSE
    /\ UNCHANGED <<textVars, execVars, gateVars, parseVars, fnVars, reloads, liveClients, liveChannels,
                   stack, deferred_actions, executing_deferred_actions,
                   in_join_context, crashed, events, cmds>>


----
(***************************************************************************)
(* Variables, scopes and user functions.  Names and values are texts.      *)
(***************************************************************************)
Digits == <<"0","1","2","3","4","5","6","7","8","9">>

IsDigit(c) == \E d \in 1..10 : Digits[d] = c

DigitValue(c) == (CHOOSE d \in 1..10 : Digits[d] = c) - 1

RECURSIVE DigitsValue(_, _)
\* the number the leading digits of s spell, after acc
DigitsValue(s, acc) ==
    IF s = <<>> \/ ~IsDigit(s[1]) THEN acc
    ELSE DigitsValue(Tail(s), acc * 10 + DigitValue(s[1]))

\* atoi: an optional sign and the leading digits, 0 when there are none
atoi(s) ==
    LET t == SkipSpaces(s)
    IN  IF t # <<>> /\ t[1] = "-" THEN 0 - DigitsValue(Tail(t), 0)
        ELSE IF t # <<>> /\ t[1] = "+" THEN DigitsValue(Tail(t), 0)
        ELSE DigitsValue(t, 0)

RECURSIVE DecimalOf(_)
DecimalOf(n) ==
    IF n < 10 THEN <<Digits[n + 1]>>
    ELSE DecimalOf(n \div 10) \o <<Digits[(n % 10) + 1]>>

\* snprintf(result_str, sizeof(result_str), "%d", n)
itoa(n) == IF n < 0 THEN <<"-">> \o DecimalOf(0 - n) ELSE DecimalOf(n)

IsNameChar(c) ==
    \/ IsDigit(c)
    \/ c = "_"
    \/ \E k \in 1..26 : LowerLetters[k] = c \/ UpperLetters[k] = c

RETURN_VAR == <<"_","_","r","e","t","u","r","n","_","_">>

\* a variable of a scope
Variable(name, value, is_const) == [name |-> name, value |-> value, is_const |-> is_const]

\* create_scope
create_scope(parent) == [parent |-> parent, variables |-> <<>>]

NotFound == [scope |-> 0, index |-> 0]

\* the name without the % a script writes in front of it
CleanName(name) == IF name # <<>> /\ name[1] = "%" THEN Tail(name) ELSE name

RECURSIVE find_variable(_, _, _)
\* find_variable: the scope, then its parent, and so on; scope 0 is NoText
find_variable(scs, scope, name) ==
    IF scope = 0 THEN NotFound
    ELSE LET vs == scs[scope].variables
             I == {i \in 1..Len(vs) : vs[i].name = CleanName(name)}
         IN  IF I # {}
             THEN [scope |-> scope, index |-> CHOOSE i \in I : \A j \in I : i <= j]
             ELSE find_variable(scs, scs[scope].parent, name)

\* get_variable: the value, NoText when no scope of the chain has the name
get_variable(scs, scope, name) ==
    LET existing == find_variable(scs, scope, name)
    IN  IF existing = NotFound THEN NoText
        ELSE scs[existing.scope].variables[existing.index].value

\* set_variable: a name the chain has is updated where it is, unless it is
\* const; a new name is created in the scope given
set_variable(scs, scope, name, value, is_const) ==
    LET existing == find_variable(scs, scope, name)
    IN  IF scope = 0 THEN scs
        ELSE IF existing # NotFound
        THEN IF scs[existing.scope].variables[existing.index].is_const THEN scs
             ELSE [scs EXCEPT ![existing.scope].variables[existing.index].value = value]
        ELSE [scs EXCEPT ![scope].variables =
                  <<Variable(CleanName(name), value, is_const)>> \o @]

\* init_global_scope
init_global_scope ==
    <<[parent |-> 0,
       variables |-> <<Variable(<<"n","u","l","l">>, <<>>, TRUE),
                       Variable(<<"f","a","l","s","e">>, <<"0">>, TRUE),
                       Variable(<<"t","r","u","e">>, <<"1">>, TRUE)>>]>>

\* the %name substitution of substitute_variables for a text that is one
\* variable reference; any other text goes through the syntax validation
SubstituteVars(scs, scope, input) ==
    IF /\ Len(input) > 1
       /\ input[1] = "%"
       /\ \A k \in 2..Len(input) : IsNameChar(input[k])
       /\ get_variable(scs, scope, input) # NoText
    THEN get_variable(scs, scope, input)
    ELSE substitute_variables(input)

\* the first position from k on whose character is in stops, Len(s) + 1 if none
FirstOf(s, k, stops) ==
    LET K == {j \in k..Len(s) : s[j] \in stops}
    IN  IF K = {} THEN Len(s) + 1 ELSE CHOOSE j \in K : \A i \in K : j <= i

is_builtin_function(name) ==
    name \in {<<"f","i","n","d","_","c","l","i","e","n","t">>, <<"f","i","n","d","_","s","e","r","v","e","r">>, <<"f","i","n","d","_","c","h","a","n","n","e","l">>}

RECURSIVE is_function_call(_)
\* is_function_call: "$name(", the name of a built-in before "(", or such a
\* call after the "=" of a line that starts with "var "
is_function_call(text) ==
    LET line == SkipSpaces(text)
        equals == Find(line, <<"=">>)
        p == FirstOf(line, 2, {"(", " "})
        q == FirstOf(line, 1, {"(", " "})
    IN  IF StartsWith(line, <<"v","a","r"," ">>) /\ equals > 0
        THEN is_function_call(SubSeq(line, equals + 1, Len(line)))
        ELSE IF line # <<>> /\ line[1] = "$"
        THEN p <= Len(line) /\ line[p] = "("
        ELSE /\ q <= Len(line)
             /\ line[q] = "("
             /\ is_builtin_function(SubSeq(line, 1, q - 1))

\* is_arithmetic_operation
is_arithmetic_operation(line) ==
    /\ line # <<>>
    /\ line[1] = "%"
    /\ \/ \E op \in {<<"+","+">>, <<"-","-">>, <<"+","=">>, <<"-","=">>, <<"*","=">>, <<"/","=">>} : Find(line, op) > 0
       \/ /\ Find(line, <<"=">>) > 0
          /\ \E c \in {"+", "-", "*", "/"} : Find(line, <<c>>) > 0

RECURSIVE SplitCommas(_)
\* strtok(args, ","), each token trimmed
SplitCommas(s) ==
    IF s = <<>> THEN <<>>
    ELSE IF s[1] = "," THEN SplitCommas(Tail(s))
    ELSE LET q == FirstOf(s, 1, {","})
         IN  <<Trim(SubSeq(s, 1, q - 1))>> \o SplitCommas(SubSeq(s, q, Len(s)))

\* the parser of a function-call line: only a line that starts with "$" gives
\* the action its function name and its arguments
ParseFunctionCall(current_line) ==
    LET call == [NoAction EXCEPT !.type = "US_ACTION_FUNCTION_CALL"]
        func_start == SkipSpaces(current_line)
        paren == Find(func_start, <<"(">>)
        args_start == SubSeq(func_start, paren + 1, Len(func_start))
        args_end == Find(args_start, <<")">>)
        args == SplitCommas(SubSeq(args_start, 1, args_end - 1))
    IN  IF func_start # <<>> /\ func_start[1] = "$" /\ paren > 0
        THEN IF args_end > 0
             THEN [call EXCEPT !.function = SubSeq(func_start, 2, paren - 1),
                               !.argc = Len(args), !.args = args]
             ELSE [call EXCEPT !.function = SubSeq(func_start, 2, paren - 1)]
        ELSE call

RECURSIVE VarTokens(_)
\* the tokens of a variable line: quoted texts without their quotes, and words
VarTokens(p) ==
    IF p = <<>> THEN <<>>
    ELSE IF p[1] = "\""
    THEN LET r == Tail(p)
             q == Find(r, <<"\"">>)
             token == IF q = 0 THEN r ELSE SubSeq(r, 1, q - 1)
             rest == IF q = 0 THEN <<>> ELSE SubSeq(r, q + 1, Len(r))
         IN  <<token>> \o VarTokens(SkipSpaces(rest))
    ELSE LET q == Find(p, <<" ">>)
             token == IF q = 0 THEN p ELSE SubSeq(p, 1, q - 1)
             rest == IF q = 0 THEN <<>> ELSE SubSeq(p, q, Len(p))
         IN  <<token>> \o VarTokens(SkipSpaces(rest))

ParseVar(current_line) ==
    LET tokens == VarTokens(SkipSpaces(current_line))
        args == SubSeq(tokens, 1, IF Len(tokens) < 10 THEN Len(tokens) ELSE 10)
    IN  [NoAction EXCEPT !.type = "US_ACTION_VAR", !.function = <<"v","a","r">>,
                         !.argc = Len(args), !.args = args]

\* the chain of tests parse_action_block makes on a line, for the statements
\* about variables and functions; a line none of them takes gives no action
ParseStatement(current_line) ==
    IF is_function_call(current_line) THEN ParseFunctionCall(current_line)
    ELSE IF is_arithmetic_operation(current_line)
    THEN [NoAction EXCEPT !.type = "US_ACTION_ARITHMETIC", !.function = <<"a","r","i","t","h","m","e","t","i","c">>,
                          !.argc = 1, !.args = <<current_line>>]
    ELSE IF \/ StartsWith(current_line, <<"v","a","r"," ">>)
            \/ StartsWith(current_line, <<"c","o","n","s","t"," ","v","a","r"," ">>)
            \/ (current_line # <<>> /\ current_line[1] = "%"
                    /\ Find(current_line, <<"=">>) > 0)
    THEN ParseVar(current_line)
    ELSE IF StartsWith(current_line, <<"r","e","t","u","r","n"," ">>)
    THEN ParseReturn(SkipSpaces(SubSeq(current_line, 8, Len(current_line))))
    ELSE NoAction

RECURSIVE ParseStatements(_)
\* parse_action_block on the lines of a body
ParseStatements(lines) ==
    IF lines = <<>> THEN <<>>
    ELSE LET action == ParseStatement(Trim(Head(lines)))
         IN  (IF action.type = "none" THEN <<>> ELSE <<action>>)
                 \o ParseStatements(Tail(lines))

\* "function $name($p, ...) {" and the lines up to the closing brace
UserFunction(name, parameters, lines) ==
    [name |-> name, parameters |-> parameters, param_count |-> Len(parameters),
     body |-> ParseStatements(lines)]

\* a script: its functions and the lines of the body of its rule
Program(functions, lines) ==
    [functions |-> LoadFunctions(functions, <<>>), actions |-> ParseStatements(lines)]

NoProgram == Program(<<>>, <<>>)

FnDouble == UserFunction(<<"d","o","u","b","l","e">>, <<<<"n">>>>, <<<<" "," "," "," ","r","e","t","u","r","n"," ","%","n"," ","*"," ","2">>>>)
FnYes == UserFunction(<<"y","e","s">>, <<>>, <<<<" "," "," "," ","r","e","t","u","r","n"," ","$","t","r","u","e">>>>)
FnOuter == UserFunction(<<"o","u","t","e","r">>, <<<<"a">>>>, <<<<" "," "," "," ","$","i","n","n","e","r","(",")">>>>)
FnInner == UserFunction(<<"i","n","n","e","r">>, <<>>, <<<<" "," "," "," ","v","a","r"," ","%","a"," ","="," ","c","h","a","n","g","e","d">>>>)
FnLoop == UserFunction(<<"l","o","o","p">>, <<>>, <<<<" "," "," "," ","$","l","o","o","p","(",")">>>>)
FnSetc == UserFunction(<<"s","e","t","c">>, <<<<"c">>>>, <<<<" "," "," "," ","v","a","r"," ","%","c"," ","="," ","7">>>>)

\* var %n = 5, then $double(2): the parameter of double is n
ShadowProgram ==
    Program(<<FnDouble>>, <<<<"v","a","r"," ","%","n"," ","="," ","5">>, <<"$","d","o","u","b","l","e","(","2",")">>>>)

Programs ==
    { ShadowProgram,
      Program(<<FnDouble>>, <<<<"v","a","r"," ","%","r"," ","="," ","$","d","o","u","b","l","e","(","2","1",")">>>>),
      Program(<<FnDouble, FnYes>>, <<<<"$","d","o","u","b","l","e","(","2","1",")">>, <<"$","y","e","s","(",")">>, <<"v","a","r"," ","%","r"," ","="," ","1">>>>),
      Program(<<FnOuter, FnInner>>, <<<<"$","o","u","t","e","r","(","1",")">>>>),
      Program(<<FnLoop>>, <<<<"$","l","o","o","p","(",")">>>>),
      Program(<<FnSetc>>, <<<<"c","o","n","s","t"," ","v","a","r"," ","%","c"," ","5">>, <<"v","a","r"," ","%","c"," ","="," ","6">>, <<"%","c","+","+">>, <<"$","s","e","t","c","(","9",")">>>>),
      Program(<<>>, <<<<"v","a","r"," ","%","x"," ","="," ","1">>, <<"c","o","n","s","t"," ","v","a","r"," ","%","x"," ","2">>, <<"v","a","r"," ","%","x"," ","="," ","3">>>>),
      Program(<<FnOuter, FnInner>>, <<<<"v","a","r"," ","%","a"," ","="," ","m","i","n","e">>, <<"$","o","u","t","e","r","(","1",")">>, <<"$","i","n","n","e","r","(",")">>>>),
      Program(<<FnDouble>>, <<<<"v","a","r"," ","%","r"," ","="," ","0">>, <<"$","d","o","u","b","l","e","(","%","r",")">>, <<"%","r","+","+">>, <<"r","e","t","u","r","n"," ","\"","d","o","n","e","\"">>>>),
      Program(<<FnYes, FnSetc>>, <<<<"$","y","e","s","(",")">>, <<"$","s","e","t","c","(","%","t","r","u","e",")">>, <<"c","o","n","s","t"," ","v","a","r"," ","%","c"," ","="," ","5">>>>),
      Program(<<>>, <<<<"v","a","r"," ","%","n"," ","4">>, <<"%","n","-","-">>, <<"c","o","n","s","t"," ","v","a","r"," ","%","k"," ","\"","a"," ","b","\"">>, <<"%","k","+","+">>>>) }

\* one call of execute_script_action walking a chain: the rule's, or the body
\* of a function with the scope the call created and the one it set aside
CallFrame(acts, saved_scope, func_scope) ==
    [acts |-> acts, pc |-> 1, saved_scope |-> saved_scope, func_scope |-> func_scope]

InCall == calls # <<>> /\ ~overflow
TopCall == calls[Len(calls)]
AtAction == InCall /\ TopCall.pc <= Len(TopCall.acts)
CurAction == TopCall.acts[TopCall.pc]

\* the end of execute_script_action: the next action of the chain runs unless
\* the scope chain has a __return__
AfterAction(scs, scope, frame) ==
    IF frame.pc < Len(frame.acts) /\ get_variable(scs, scope, RETURN_VAR) # NoText
    THEN [frame EXCEPT !.pc = Len(frame.acts) + 1]
    ELSE [frame EXCEPT !.pc = @ + 1]

Advance(scs, scope) ==
    calls' = [calls EXCEPT ![Len(calls)] = AfterAction(scs, scope, TopCall)]

\* the constants a declaration in the module's scope has made, with the value
\* each had once declared
Declares(scs, name) ==
    LET existing == find_variable(scs, 1, name)
        kept == {d \in const_decl : d.name # CleanName(name)}
    IN  IF existing = NotFound THEN const_decl
        ELSE kept \cup {[name |-> CleanName(name),
                         value |-> scs[existing.scope].variables[existing.index].value]}

\* execute_scripts_for_event: the rule of the script runs
RunRule ==
    /\ calls = <<>>
    /\ ~overflow
    /\ fn_runs < MaxRuns
    /\ program.actions # <<>>
    /\ calls' = <<CallFrame(program.actions, 0, 0)>>
    /\ fn_runs' = fn_runs + 1
    /\ UNCHANGED <<textVars, hostVars, loadVars, parseVars, gateVars, execVars, program, scopes,
                   global_scope, overflow, const_decl>>

\* case US_ACTION_VAR: "var %name = value", "var %name value" and
\* "const var %name value" with a plain value
ExecVar ==
    /\ AtAction
    /\ CurAction.type = "US_ACTION_VAR"
    /\ LET a == CurAction
           scs == IF a.argc >= 4 /\ a.args[1] = <<"v","a","r">> /\ a.args[3] = <<"=">>
                  THEN set_variable(scopes, global_scope, a.args[2],
                                    SubstituteVars(scopes, global_scope, a.args[4]), FALSE)
                  ELSE IF a.argc >= 3 /\ a.args[1] = <<"v","a","r">>
                  THEN set_variable(scopes, global_scope, a.args[2],
                                    SubstituteVars(scopes, global_scope, a.args[3]), FALSE)
                  ELSE IF a.argc >= 4 /\ a.args[1] = <<"c","o","n","s","t">> /\ a.args[2] = <<"v","a","r">>
                  THEN set_variable(scopes, global_scope, a.args[3],
                                    SubstituteVars(scopes, global_scope, a.args[4]), TRUE)
                  ELSE scopes
       IN  /\ scopes' = scs
           /\ const_decl' =
                  (IF a.argc >= 4 /\ a.args[1] = <<"c","o","n","s","t">> /\ a.args[2] = <<"v","a","r">>
                   THEN Declares(scs, a.args[3]) ELSE const_decl)
           /\ Advance(scs, global_scope)
    /\ UNCHANGED <<textVars, hostVars, loadVars, parseVars, gateVars, execVars, program,
                   global_scope, overflow, fn_runs>>

\* case US_ACTION_ARITHMETIC, for "%name++" and "%name--"
ExecArithmetic ==
    /\ AtAction
    /\ CurAction.type = "US_ACTION_ARITHMETIC"
    /\ CurAction.argc >= 1
    /\ LET line == CurAction.args[1]
           var_name == SubSeq(line, 2, FirstOf(line, 2, {"+", "-", "*", "/", "=", " "}) - 1)
           current_val == get_variable(scopes, global_scope, var_name)
           current_int == IF current_val = NoText THEN 0 ELSE atoi(current_val)
           new_value == IF Find(line, <<"+","+">>) > 0 THEN current_int + 1
                        ELSE IF Find(line, <<"-","-">>) > 0 THEN current_int - 1
                        ELSE current_int
           scs == set_variable(scopes, global_scope, var_name, itoa(new_value), FALSE)
       IN  /\ scopes' = scs
           /\ Advance(scs, global_scope)
    /\ UNCHANGED <<textVars, hostVars, loadVars, parseVars, gateVars, execVars, program,
                   global_scope, overflow, const_decl, fn_runs>>

RECURSIVE BindParameters(_, _, _, _, _)
\* the loop that binds the parameters in the scope of the call
BindParameters(scs, func_scope, parameters, args, i) ==
    IF i > Len(parameters) THEN scs
    ELSE BindParameters(set_variable(scs, func_scope, parameters[i], args[i], FALSE),
                        func_scope, parameters, args, i + 1)

\* case US_ACTION_FUNCTION_CALL up to the call of the body:
\* execute_function_with_objects finds the function, creates its scope as a
\* child of global_scope, binds the parameters and makes the scope current.
\* A call the stack of the process has no room for ends the process.
ExecFunctionCall ==
    /\ AtAction
    /\ CurAction.type = "US_ACTION_FUNCTION_CALL"
    /\ LET a == CurAction
           func == find_function(program.functions, a.function)
           args == [i \in 1..a.argc |-> SubstituteVars(scopes, global_scope, a.args[i])]
           func_scope == Len(scopes) + 1
       IN  IF a.function = NoText \/ func = NoFunction \/ a.argc # func.param_count
           THEN /\ Advance(scopes, global_scope)
                /\ UNCHANGED <<scopes, global_scope, overflow>>
           ELSE IF Len(calls) >= StackLimit
           THEN /\ overflow' = TRUE
                /\ UNCHANGED <<scopes, global_scope, calls>>
           ELSE /\ scopes' = BindParameters(Append(scopes, create_scope(global_scope)),
                                            func_scope, func.parameters, args, 1)
                /\ global_scope' = func_scope
                /\ calls' = Append(calls, CallFrame(func.body, global_scope, func_scope))
                /\ UNCHANGED overflow
    /\ UNCHANGED <<textVars, hostVars, loadVars, parseVars, gateVars, execVars, program,
                   const_decl, fn_runs>>

\* case US_ACTION_RETURN: a value the parser kept is stored as __return__ of
\* the scope chain; the chain ends
ExecReturnStatement ==
    /\ AtAction
    /\ CurAction.type = "US_ACTION_RETURN"
    /\ scopes' = (IF CurAction.argc >= 1
                  THEN set_variable(scopes, global_scope, RETURN_VAR,
                                    SubstituteVars(scopes, global_scope, CurAction.args[1]),
                                    FALSE)
                  ELSE scopes)
    /\ calls' = [calls EXCEPT ![Len(calls)].pc = Len(TopCall.acts) + 1]
    /\ UNCHANGED <<textVars, hostVars, loadVars, parseVars, gateVars, execVars, program,
                   global_scope, overflow, const_decl, fn_runs>>

\* the body of a function has run: global_scope is restored, the scope of
\* the call is freed, and the calling chain goes on
FunctionEnd ==
    /\ InCall
    /\ Len(calls) > 1
    /\ TopCall.pc > Len(TopCall.acts)
    /\ global_scope' = TopCall.saved_scope
    /\ scopes' = SubSeq(scopes, 1, Len(scopes) - 1)
    /\ calls' = [i \in 1..(Len(calls) - 1) |->
                    IF i = Len(calls) - 1
                    THEN AfterAction(scopes', TopCall.saved_scope, calls[i])
                    ELSE calls[i]]
    /\ UNCHANGED <<textVars, hostVars, loadVars, parseVars, gateVars, execVars, program,
                   overflow, const_decl, fn_runs>>

\* the chain of the rule has ended
RuleEnd ==
    /\ InCall
    /\ Len(calls) = 1
    /\ TopCall.pc > Len(TopCall.acts)
    /\ calls' = <<>>
    /\ UNCHANGED <<textVars, hostVars, loadVars, parseVars, gateVars, execVars, program, scopes,
                   global_scope, overflow, const_decl, fn_runs>>

----
(***************************************************************************)
(* load_script_file and parse_script_content: the text of a script file is *)
(* read line by line.  A line is a token of strtok_r with "\n", so no line *)
(* is empty.  The model covers texts without tabs, without function        *)
(* definitions and without "new" declarations.                             *)
(***************************************************************************)
EventNames ==
    << [name |-> <<"S","T","A","R","T">>, type |-> "US_EVENT_START"],
       [name |-> <<"C","O","N","N","E","C","T">>, type |-> "US_EVENT_CONNECT"],
       [name |-> <<"Q","U","I","T">>, type |-> "US_EVENT_QUIT"],
       [name |-> <<"C","A","N","_","J","O","I","N">>, type |-> "US_EVENT_CAN_JOIN"],
       [name |-> <<"J","O","I","N">>, type |-> "US_EVENT_JOIN"],
       [name |-> <<"P","A","R","T">>, type |-> "US_EVENT_PART"],
       [name |-> <<"K","I","C","K">>, type |-> "US_EVENT_KICK"],
       [name |-> <<"N","I","C","K">>, type |-> "US_EVENT_NICK"],
       [name |-> <<"P","R","I","V","M","S","G">>, type |-> "US_EVENT_PRIVMSG"],
       [name |-> <<"N","O","T","I","C","E">>, type |-> "US_EVENT_NOTICE"],
       [name |-> <<"T","O","P","I","C">>, type |-> "US_EVENT_TOPIC"],
       [name |-> <<"M","O","D","E">>, type |-> "US_EVENT_MODE"],
       [name |-> <<"I","N","V","I","T","E">>, type |-> "US_EVENT_INVITE"],
       [name |-> <<"K","N","O","C","K">>, type |-> "US_EVENT_KNOCK"],
       [name |-> <<"A","W","A","Y">>, type |-> "US_EVENT_AWAY"],
       [name |-> <<"O","P","E","R">>, type |-> "US_EVENT_OPER"],
       [name |-> <<"K","I","L","L">>, type |-> "US_EVENT_KILL"],
       [name |-> <<"U","M","O","D","E">>, type |-> "US_EVENT_UMODE_CHANGE"],
       [name |-> <<"C","H","A","N","M","O","D","E">>, type |-> "US_EVENT_CHANMODE"],
       [name |-> <<"C","H","A","N","N","E","L","_","C","R","E","A","T","E">>, type |-> "US_EVENT_CHANNEL_CREATE"],
       [name |-> <<"C","H","A","N","N","E","L","_","D","E","S","T","R","O","Y">>, type |-> "US_EVENT_CHANNEL_DESTROY"],
       [name |-> <<"W","H","O","I","S">>, type |-> "US_EVENT_WHOIS"],
       [name |-> <<"R","E","H","A","S","H">>, type |-> "US_EVENT_REHASH"],
       [name |-> <<"A","C","C","O","U","N","T","_","L","O","G","I","N">>, type |-> "US_EVENT_ACCOUNT_LOGIN"],
       [name |-> <<"P","R","E","_","C","O","M","M","A","N","D">>, type |-> "US_EVENT_PRE_COMMAND"],
       [name |-> <<"P","O","S","T","_","C","O","M","M","A","N","D">>, type |-> "US_EVENT_POST_COMMAND"],
       [name |-> <<"T","K","L","_","A","D","D">>, type |-> "US_EVENT_TKL_ADD"],
       [name |-> <<"T","K","L","_","D","E","L">>, type |-> "US_EVENT_TKL_DEL"],
       [name |-> <<"S","P","A","M","F","I","L","T","E","R">>, type |-> "US_EVENT_SPAMFILTER"],
       [name |-> <<"C","O","M","M","A","N","D">>, type |-> "US_EVENT_COMMAND_OVERRIDE"] >>

US_EVENT_MAX == "US_EVENT_MAX"

\* the first name of the chain that compares equal, US_EVENT_MAX when none does
parse_event_type(event_str) ==
    LET K == {i \in 1..Len(EventNames) : strcasecmp(event_str, EventNames[i].name) = 0}
    IN  IF K = {} THEN US_EVENT_MAX
        ELSE EventNames[CHOOSE i \in K : \A j \in K : i <= j].type

\* strchr from position from on: the position of the character, 0 for NULL
strchr(s, from, c) ==
    LET K == {k \in from..Len(s) : s[k] = c}
    IN  IF K = {} THEN 0 ELSE CHOOSE k \in K : \A j \in K : k <= j

\* "on EVENT:target:{": the two colons and the brace after them are looked
\* for; what follows the brace on the line is not looked at
OnHeader(current_line) ==
    LET colon1 == strchr(current_line, 4, ":")
        colon2 == IF colon1 = 0 THEN 0 ELSE strchr(current_line, colon1 + 1, ":")
        brace == IF colon2 = 0 THEN 0 ELSE strchr(current_line, colon2 + 1, "{")
    IN  [found |-> brace # 0,
         event_part |-> IF colon1 = 0 THEN <<>>
                       ELSE SkipSpaces(SubSeq(current_line, 4, colon1 - 1)),
         target_part |-> IF colon2 = 0 THEN <<>>
                        ELSE SkipSpaces(SubSeq(current_line, colon1 + 1, colon2 - 1))]

ObbyScriptRule(event, target, actions) == [event |-> event, target |-> target, actions |-> actions]

NoRule == ObbyScriptRule(NULL, NoText, <<>>)

RECURSIVE CountBraces(_, _)
\* brace_count after the characters of the line
CountBraces(p, count) ==
    IF p = <<>> THEN count
    ELSE CountBraces(Tail(p), IF p[1] = "{" THEN count + 1
                              ELSE IF p[1] = "}" THEN count - 1 ELSE count)

JoinHi == <<"o","n"," ","J","O","I","N",":","*",":","{"," ","s","e","n","d","n","o","t","i","c","e"," ","$","c","l","i","e","n","t"," ","\"","h","i","\""," ","}">>
OnJoin == <<"o","n"," ","J","O","I","N",":","*",":","{">>
OnPart == <<"o","n"," ","P","A","R","T",":","*",":","{">>
OnQuit == <<"o","n"," ","Q","U","I","T",":","#","t","e","s","t",":","{">>
OnLowerJoin == <<"o","n"," ","j","o","i","n",":","#","t","e","s","t",":","{">>
OnFoo == <<"o","n"," ","F","O","O",":","*",":","{">>
OnJoinSpace == <<"o","n"," ","J","O","I","N"," ",":","*",":","{">>
OnNoColon == <<"o","n"," ","J","O","I","N"," ","*",":","{">>
NoticeHi == <<" "," "," "," ","s","e","n","d","n","o","t","i","c","e"," ","$","c","l","i","e","n","t"," ","\"","h","i","\"">>
NoticeBye == <<" "," "," "," ","s","e","n","d","n","o","t","i","c","e"," ","$","c","l","i","e","n","t"," ","\"","b","y","e","\"">>
CloseBrace == <<"}">>
Comment == <<"/","/"," ","g","r","e","e","t"," ","w","h","o","e","v","e","r"," ","j","o","i","n","s">>
Blank == <<" "," ">>
IfAlice == <<" "," "," "," ","i","f"," ","(","$","c","l","i","e","n","t",".","n","a","m","e"," ","=","="," ","\"","a","l","i","c","e","\"",")"," ","{">>
CloseInner == <<" "," "," "," ","}">>
KickLine == <<" "," "," "," ","K","I","C","K"," ","#","t","e","s","t"," ","$","c","l","i","e","n","t"," ","\"","n","o","t"," ","t","o","d","a","y","\"">>

\* the tree of no condition: parse_bool_expression returns NULL
NoExpr == [type |-> "NULL"]

\* the texts of the script files: the one-line rule alone, before and after
\* another rule; rules with the body on lines of their own; event names that
\* are known, known in lower case, and not known; a header without its
\* second colon; a body with an If and one with a command line
ScriptTexts ==
    { <<JoinHi>>,
      <<JoinHi, OnPart, NoticeBye, CloseBrace>>,
      <<OnPart, NoticeBye, CloseBrace, JoinHi>>,
      <<OnJoin, NoticeHi, CloseBrace>>,
      <<OnJoin, NoticeHi, CloseBrace, OnPart, NoticeBye, CloseBrace>>,
      <<Comment, OnLowerJoin, NoticeHi, CloseBrace>>,
      <<OnFoo, NoticeHi, CloseBrace>>,
      <<OnFoo, NoticeHi, CloseBrace, Blank, OnJoin, NoticeHi, CloseBrace>>,
      <<OnJoinSpace, NoticeHi, CloseBrace>>,
      <<OnNoColon, NoticeHi, CloseBrace>>,
      <<OnQuit, CloseBrace>>,
      <<OnJoin, IfAlice, NoticeHi, CloseInner, NoticeBye, CloseBrace>>,
      <<OnPart, NoticeBye, CloseBrace, OnQuit, CloseBrace>>,
      <<OnJoin, NoticeHi, KickLine, CloseBrace>>,
      <<JoinHi, OnJoin, NoticeHi, CloseBrace>>,
      <<Comment, Blank>> }

NoContext == [client |-> NoText]

ClientNames == {"alice", "bob"}

ChannelNames == {"#test"}

\* the names of the script's variables
ObjectVarNames == {"u", "c"}

\* an object of the host: the one of that name that was allocated as the
\* gen-th of its name
Pointer(name, gen) == [name |-> name, gen |-> gen]

\* the pointer NULL
NullPointer == Pointer(NULL, 0)

NoObjectVar == [type |-> "none", value |-> NoText, object_ptr |-> NullPointer]

\* the first objects of every name exist
InitHeap == [n \in ClientNames \cup ChannelNames |-> [live |-> TRUE, gen |-> 1]]

NoObjRead == [name |-> NULL, dangling |-> FALSE, outcome |-> "none"]

\* a rule "new COMMAND:target" or "on COMMAND:target" of a script file
CommandRule(event, target) == [event |-> event, target |-> target]

\* the rules of the file a configuration run loaded: gen tells the runs, and
\* with them the allocations, apart
CommandFile(gen, file_rules) == [gen |-> gen, rules |-> file_rules]

NoCommandFile == CommandFile(0, <<>>)

NoCmdRead == [command |-> <<>>, dangling |-> FALSE]

TextIdle ==
    /\ script_content = <<>>
    /\ line_ptr = 0
    /\ rules = <<>>
    /\ open_rule = NoRule
    /\ brace_count = 0
    /\ action_buffer = <<>>
    /\ loaded = "none"
    /\ subst_op = "none"
    /\ subst_input = <<>>
    /\ subst_ctx = NoContext
    /\ subst_output = <<>>
    /\ subst_pc = "none"
    /\ bool_expr = NoExpr
    /\ subst_p = 0
    /\ heap = InitHeap
    /\ object_vars = [v \in ObjectVarNames |-> NoObjectVar]
    /\ objRead = NoObjRead
    /\ rule_actions = <<>>
    /\ walkers = <<>>
    /\ issued = <<>>
    /\ replayed = <<>>
    /\ replay_action = 0
    /\ command_files = NoCommandFile
    /\ registered_commands = <<>>
    /\ cmd_read = NoCmdRead
    /\ block_content = <<>>
    /\ block_parse = [k |-> 1, st |-> NoParse]

Reading == loaded = "reading" /\ open_rule = NoRule /\ line_ptr <= Len(script_content)

CurrentLine == SkipSpaces(script_content[line_ptr])

\* load_script_file reads the file and hands the text to parse_script_content
ReadFile ==
    /\ loaded = "none"
    /\ \E text \in ScriptTexts : script_content' = text
    /\ line_ptr' = 1
    /\ loaded' = "reading"
    /\ UNCHANGED <<walkVars, queueVars, commandVars, blockVars, hostVars, execVars, gateVars, parseVars, loadVars, fnVars, substVars, objectVars,
                   rules, open_rule, brace_count, action_buffer>>

\* a line of white space or a comment
SkipLine ==
    /\ Reading
    /\ CurrentLine = <<>> \/ StartsWith(CurrentLine, <<"/","/">>)
    /\ line_ptr' = line_ptr + 1
    /\ UNCHANGED <<walkVars, queueVars, commandVars, blockVars, hostVars, execVars, gateVars, parseVars, loadVars, fnVars, substVars, objectVars,
                   script_content, rules, open_rule, brace_count, action_buffer, loaded>>

\* a line that starts with "on ": with both colons and the brace the rule
\* gets its event and its target and the body is read from the next line
\* on; without them the rule is freed
OnLine ==
    /\ Reading
    /\ StartsWith(CurrentLine, <<"o","n"," ">>)
    /\ LET h == OnHeader(CurrentLine)
       IN  IF h.found
           THEN /\ open_rule' = ObbyScriptRule(parse_event_type(h.event_part), h.target_part, <<>>)
                /\ brace_count' = 1
           ELSE UNCHANGED <<open_rule, brace_count>>
    /\ action_buffer' = <<>>
    /\ line_ptr' = line_ptr + 1
    /\ UNCHANGED <<walkVars, queueVars, commandVars, blockVars, hostVars, execVars, gateVars, parseVars, loadVars, fnVars, substVars, objectVars,
                   script_content, rules, loaded>>

\* a line of the body: its braces are counted, and the line is kept when the
\* count stays positive
BodyLine ==
    /\ loaded = "reading"
    /\ open_rule # NoRule
    /\ line_ptr <= Len(script_content)
    /\ brace_count > 0
    /\ LET count == CountBraces(script_content[line_ptr], brace_count)
       IN  /\ brace_count' = count
           /\ IF count > 0
              THEN /\ action_buffer' = Append(action_buffer, script_content[line_ptr])
                   /\ line_ptr' = line_ptr + 1
              ELSE UNCHANGED <<action_buffer, line_ptr>>
    /\ UNCHANGED <<walkVars, queueVars, commandVars, blockVars, hostVars, execVars, gateVars, parseVars, loadVars, fnVars, substVars, objectVars,
                   script_content, rules, open_rule, loaded>>

\* the body has ended, at its closing brace or with the text: the body is
\* parsed and the rule is appended to the list
AddRule ==
    /\ loaded = "reading"
    /\ open_rule # NoRule
    /\ line_ptr > Len(script_content) \/ brace_count <= 0
    /\ rules' = Append(rules, [open_rule EXCEPT !.actions = parse_action_block(action_buffer)])
    /\ open_rule' = NoRule
    /\ line_ptr' = IF line_ptr > Len(script_content) THEN line_ptr ELSE line_ptr + 1
    /\ UNCHANGED <<walkVars, queueVars, commandVars, blockVars, hostVars, execVars, gateVars, parseVars, loadVars, fnVars, substVars, objectVars,
                   script_content, brace_count, action_buffer, loaded>>

\* any other line is passed over
OtherLine ==
    /\ Reading
    /\ CurrentLine # <<>>
    /\ ~StartsWith(CurrentLine, <<"/","/">>)
    /\ ~StartsWith(CurrentLine, <<"o","n"," ">>)
    /\ ~StartsWith(CurrentLine, <<"f","u","n","c","t","i","o","n"," ">>)
    /\ ~StartsWith(CurrentLine, <<"n","e","w"," ">>)
    /\ line_ptr' = line_ptr + 1
    /\ UNCHANGED <<walkVars, queueVars, commandVars, blockVars, hostVars, execVars, gateVars, parseVars, loadVars, fnVars, substVars, objectVars,
                   script_content, rules, open_rule, brace_count, action_buffer, loaded>>

\* parse_script_content returns the list; load_script_file rejects a file
\* that has no rule
FileParsed ==
    /\ loaded = "reading"
    /\ open_rule = NoRule
    /\ line_ptr > Len(script_content)
    /\ loaded' = IF rules = <<>> THEN "rejected" ELSE "accepted"
    /\ UNCHANGED <<walkVars, queueVars, commandVars, blockVars, hostVars, execVars, gateVars, parseVars, loadVars, fnVars, substVars, objectVars,
                   script_content, line_ptr, rules, open_rule, brace_count, action_buffer>>

----
(***************************************************************************)
(* substitute_command_parameters and substitute_variables.  The model      *)
(* covers parameter values shorter than the 512 bytes of param_value,      *)
(* clients and channels whose fields are all set, script variables that    *)
(* are strings, and texts without "[" in which the search for function     *)
(* calls finds none.  substitute_variables works on its output in steps,   *)
(* and the model has one action for each.                                  *)
(***************************************************************************)
RECURSIVE obbyscript_replace_string(_, _, _)
\* every occurrence of needle, from left to right, becomes replacement
obbyscript_replace_string(haystack, needle, replacement) ==
    LET pos == Find(haystack, needle)
    IN  IF pos = 0 THEN haystack
        ELSE SubSeq(haystack, 1, pos - 1) \o replacement
                 \o obbyscript_replace_string(
                        SubSeq(haystack, pos + Len(needle), Len(haystack)),
                        needle, replacement)

\* the host's limit of the parameters of a command
MAXPARA == 15

RECURSIVE RangeValue(_, _, _, _)
\* param_value: the parameters i..end that exist, with one space between
RangeValue(parv, i, end, param_value) ==
    IF i > end \/ i > Len(parv) THEN param_value
    ELSE RangeValue(parv, i + 1, end,
                    (IF param_value # <<>> THEN param_value \o <<" ">> ELSE param_value)
                        \o parv[i])

\* the trailing white space of param_value is removed, up to its first
\* character
TrimValue(param_value) ==
    IF Len(param_value) <= 1 THEN param_value
    ELSE <<param_value[1]>> \o TrimRight(Tail(param_value))

\* The three loops of substitute_command_parameters call
\* obbyscript_replace_string for every name in turn; a call for a name the
\* text does not have copies the text.  The model goes from one call that
\* finds its name to the next one.

RECURSIVE ReplaceRanges(_, _, _, _)
\* "$<start>-<end>" for every start and every end after start, from the
\* pass of start and end on
ReplaceRanges(result, parv, start, end) ==
    LET K == {se \in (1..MAXPARA) \X (2..MAXPARA) :
                 /\ se[1] < se[2]
                 /\ se[1] > start \/ (se[1] = start /\ se[2] >= end)
                 /\ Find(result, <<"$">> \o itoa(se[1]) \o <<"-">> \o itoa(se[2])) # 0}
        next == CHOOSE se \in K :
                    \A o \in K : se[1] < o[1] \/ (se[1] = o[1] /\ se[2] <= o[2])
    IN  IF K = {} THEN result
        ELSE ReplaceRanges(
                 obbyscript_replace_string(result,
                     <<"$">> \o itoa(next[1]) \o <<"-">> \o itoa(next[2]),
                     TrimValue(RangeValue(parv, next[1], next[2], <<>>))),
                 parv, next[1], next[2] + 1)

RECURSIVE ReplaceOpenRanges(_, _, _)
\* "$<start>-": the parameters from start on
ReplaceOpenRanges(result, parv, start) ==
    LET K == {i \in start..MAXPARA : Find(result, <<"$">> \o itoa(i) \o <<"-">>) # 0}
        next == CHOOSE i \in K : \A o \in K : i <= o
    IN  IF K = {} THEN result
        ELSE ReplaceOpenRanges(
                 obbyscript_replace_string(result, <<"$">> \o itoa(next) \o <<"-">>,
                     TrimValue(RangeValue(parv, next, Len(parv), <<>>))),
                 parv, next + 1)

RECURSIVE ReplaceParameters(_, _, _)
\* "$<i>": the parameter, or "$null" when there is none
ReplaceParameters(result, parv, i) ==
    LET K == {j \in i..MAXPARA : Find(result, <<"$">> \o itoa(j)) # 0}
        next == CHOOSE j \in K : \A o \in K : j <= o
    IN  IF K = {} THEN result
        ELSE ReplaceParameters(
                 obbyscript_replace_string(result, <<"$">> \o itoa(next),
                     IF next <= Len(parv) THEN parv[next] ELSE <<"$","n","u","l","l">>),
                 parv, next + 1)

\* the three loops on a text whose white space at the end is removed first,
\* as it is for param_value
substitute_command_parameters_trimmed(text, parv) ==
    ReplaceParameters(
        ReplaceOpenRanges(ReplaceRanges(TrimRight(text), parv, 1, 2), parv, 1), parv, 1)

\* parv holds the parameters parv[1] .. parv[parc - 1] of the command
substitute_command_parameters(text, parv) ==
    ReplaceParameters(ReplaceOpenRanges(ReplaceRanges(text, parv, 1, 2), parv, 1), parv, 1)

NoClient == [name |-> NoText, ident |-> NoText, realhost |-> NoText, ip |-> NoText,
             info |-> NoText, account |-> NoText, server |-> NoText]

NoChannel == [name |-> NoText, topic |-> NoText, users |-> 0]

RECURSIVE ReplaceEach(_, _)
\* for one name after the other, in the order of the code: when strstr
\* finds the name in output, obbyscript_replace_string puts the value there
ReplaceEach(output, pairs) ==
    IF pairs = <<>> THEN output
    ELSE IF Find(output, pairs[1][1]) = 0 THEN ReplaceEach(output, Tail(pairs))
    ELSE ReplaceEach(obbyscript_replace_string(output, pairs[1][1], pairs[1][2]),
                     Tail(pairs))

\* the $client variables, and "$client" alone when no "$client." is left
ReplaceClient(output, client) ==
    IF client = NoClient THEN output
    ELSE LET o == ReplaceEach(output,
                      << <<<<"$","c","l","i","e","n","t",".","n","a","m","e">>, client.name>>,
                         <<<<"$","c","l","i","e","n","t",".","n","i","c","k">>, client.name>>,
                         <<<<"$","c","l","i","e","n","t",".","i","d","e","n","t">>, client.ident>>,
                         <<<<"$","c","l","i","e","n","t",".","h","o","s","t">>, client.realhost>>,
                         <<<<"$","c","l","i","e","n","t",".","i","p">>, client.ip>>,
                         <<<<"$","c","l","i","e","n","t",".","g","e","c","o","s">>, client.info>>,
                         <<<<"$","c","l","i","e","n","t",".","a","c","c","o","u","n","t">>, client.account>>,
                         <<<<"$","c","l","i","e","n","t",".","s","e","r","v","e","r">>, client.server>>,
                         <<<<"$","c","l","i","e","n","t",".","u","s","e","r",".","s","e","r","v","e","r">>, client.server>> >>)
         IN  IF Find(o, <<"$","c","l","i","e","n","t">>) # 0 /\ Find(o, <<"$","c","l","i","e","n","t",".">>) = 0
             THEN obbyscript_replace_string(o, <<"$","c","l","i","e","n","t">>, client.name)
             ELSE o

\* the $chan and $channel variables, then "$chan" alone and "$channel" alone
ReplaceChannel(output, channel) ==
    IF channel = NoChannel THEN output
    ELSE LET o == ReplaceEach(output,
                      << <<<<"$","c","h","a","n",".","n","a","m","e">>, channel.name>>,
                         <<<<"$","c","h","a","n","n","e","l",".","n","a","m","e">>, channel.name>>,
                         <<<<"$","c","h","a","n",".","t","o","p","i","c">>, channel.topic>>,
                         <<<<"$","c","h","a","n","n","e","l",".","t","o","p","i","c">>, channel.topic>>,
                         <<<<"$","c","h","a","n",".","u","s","e","r","s">>, itoa(channel.users)>>,
                         <<<<"$","c","h","a","n","n","e","l",".","u","s","e","r","s">>, itoa(channel.users)>> >>)
             c == IF Find(o, <<"$","c","h","a","n">>) # 0 /\ Find(o, <<"$","c","h","a","n",".">>) = 0
                  THEN obbyscript_replace_string(o, <<"$","c","h","a","n">>, channel.name)
                  ELSE o
         IN  IF Find(c, <<"$","c","h","a","n","n","e","l">>) # 0 /\ Find(c, <<"$","c","h","a","n","n","e","l",".">>) = 0
             THEN obbyscript_replace_string(c, <<"$","c","h","a","n","n","e","l">>, channel.name)
             ELSE c

\* me.name
ServerName == <<"i","r","c",".","t","e","s","t">>

\* the reading of the clock, in seconds
Now == <<"1","7","0","0","0","0","0","0","0","0">>

\* the first position from k on whose character is no character of a name
NameEnd(s, k) ==
    LET K == {j \in k..Len(s) : ~IsNameChar(s[j])}
    IN  IF K = {} THEN Len(s) + 1 ELSE CHOOSE j \in K : \A i \in K : j <= i

RECURSIVE ReplaceVariables(_, _, _)
\* the loop over the "%" of output, from position p on: a name that has a
\* value is replaced, with its property if it has one, everywhere in output,
\* and the search starts over at the beginning of the new text
ReplaceVariables(scs, output, p) ==
    LET percent == strchr(output, p, "%")
        var_name_end == NameEnd(output, percent + 1)
        prop_end == IF var_name_end <= Len(output) /\ output[var_name_end] = "."
                    THEN NameEnd(output, var_name_end + 1) ELSE 0
        var_end == IF prop_end > var_name_end + 1 THEN prop_end ELSE var_name_end
        value == get_variable(scs, 1, SubSeq(output, percent + 1, var_name_end - 1))
    IN  IF percent = 0 THEN output
        ELSE IF var_name_end = percent + 1 THEN ReplaceVariables(scs, output, percent + 1)
        ELSE IF value = NoText THEN ReplaceVariables(scs, output, var_end)
        ELSE ReplaceVariables(scs,
                 obbyscript_replace_string(output, SubSeq(output, percent, var_end - 1), value),
                 1)

\* a "$" of output after which an opening and then a closing parenthesis
\* follow, with a text up to the closing one that is a function call
HasFunctionCall(output) ==
    \E k \in 1..Len(output) :
        /\ output[k] = "$"
        /\ LET paren == strchr(output, k, "(")
               end_paren == IF paren = 0 THEN 0 ELSE strchr(output, paren, ")")
           IN  end_paren # 0 /\ is_function_call(SubSeq(output, k, end_paren))

SubstContext(client, channel, in_command, parv, variables) ==
    [client |-> client, channel |-> channel, in_command |-> in_command, parv |-> parv,
     variables |-> variables]

Alice == [name |-> <<"a","l","i","c","e">>, ident |-> <<"a","l">>, realhost |-> <<"h","o","s","t",".","t","e","s","t">>,
          ip |-> <<"1","0",".","0",".","0",".","1">>, info |-> <<"A","l","i","c","e"," ","A">>, account |-> <<"a","l","i","c","e">>,
          server |-> <<"i","r","c",".","t","e","s","t">>]

\* #test with a topic that reads like a script variable, #plain with a plain one
TestChannel == [name |-> <<"#","t","e","s","t">>, topic |-> <<"%","s","e","c","r","e","t">>, users |-> 2]
PlainChannel == [name |-> <<"#","p","l","a","i","n">>, topic |-> <<"w","e","l","c","o","m","e">>, users |-> 12]

\* the parameters an IRC user gave to a script command: three words, two
\* texts that read like variables, and as many letters as the host allows
Parameters ==
    { <<<<"o","n","e">>, <<"t","w","o">>, <<"t","h","r","e","e">>>>,
      <<<<"$","c","l","i","e","n","t",".","n","a","m","e">>, <<"%","s","e","c","r","e","t">>>>,
      <<<<"a">>, <<"b">>, <<"c">>, <<"d">>, <<"e">>, <<"f">>, <<"g">>, <<"h">>,
        <<"i">>, <<"j">>, <<"k">>, <<"l">>, <<"m">>, <<"n">>, <<"o">>>> }

\* the module's scope with %greeting and %secret
Greeting ==
    set_variable(set_variable(init_global_scope, 1, <<"%","s","e","c","r","e","t">>, <<"s","3">>, FALSE),
                 1, <<"%","g","r","e","e","t","i","n","g">>, <<"h","e","l","l","o"," ","%","s","e","c","r","e","t">>, FALSE)

SubstContexts ==
    { SubstContext(client, channel, FALSE, <<>>, variables) :
          client \in {NoClient, Alice}, channel \in {NoChannel, TestChannel, PlainChannel},
          variables \in {init_global_scope, Greeting} }
    \cup
    { SubstContext(Alice, channel, TRUE, parv, Greeting) :
          channel \in {NoChannel, TestChannel}, parv \in Parameters }

\* texts with no "$" and no "%"
PlainTexts ==
    { <<>>, <<"h","e","l","l","o">>, <<"h","e","l","l","o"," ","w","o","r","l","d"," ">>, <<" "," ","K","I","C","K"," ","#","t","e","s","t"," ","b","o","b">>, <<"1","-","3"," ","(","a"," ","|","|"," ","b",")"," ","&","&"," ","c">>,
      <<"\"","q","u","o","t","e","d","\""," ","t","e","x","t",","," ","w","i","t","h",":"," ","s","i","g","n","s","!">> }

\* texts with variables, well-formed and not
VariableTexts ==
    { <<"$","c","l","i","e","n","t",".","n","a","m","e">>, <<"$","c","l","i","e","n","t">>, <<"h","i"," ","$","c","l","i","e","n","t",".","n","a","m","e",","," ","y","o","u"," ","a","r","e"," ","o","n"," ","$","c","l","i","e","n","t",".","s","e","r","v","e","r">>,
      <<"$","c","h","a","n",".","n","a","m","e">>, <<"$","c","h","a","n","n","e","l",".","n","a","m","e">>, <<"$","c","h","a","n",".","t","o","p","i","c">>, <<"$","c","h","a","n","n","e","l",".","t","o","p","i","c">>,
      <<"$","c","h","a","n",".","u","s","e","r","s">>, <<"$","c","h","a","n","n","e","l",".","u","s","e","r","s">>, <<"$","c","h","a","n">>, <<"$","c","h","a","n","n","e","l">>,
      <<"M","O","D","E"," ","$","c","h","a","n",".","n","a","m","e"," ","+","o"," ","$","c","l","i","e","n","t">>, <<"M","O","D","E"," ","$","c","h","a","n","n","e","l",".","n","a","m","e"," ","+","o"," ","$","c","l","i","e","n","t">>,
      <<"$","s","e","r","v","e","r",".","n","a","m","e">>, <<"$","t","i","m","e">>, <<"$","t","r","u","e">>, <<"$","t","r","u","e","x">>, <<"$","c","l","i","e","n","t","x">>,
      <<"$","1">>, <<"$","2">>, <<"$","1","-">>, <<"$","1","-","2">>, <<"s","a","y"," ","$","1","-">>,
      <<"%","g","r","e","e","t","i","n","g">>, <<"%","s","e","c","r","e","t">>, <<"%","m","i","s","s","i","n","g">>, <<"%","g","r","e","e","t","i","n","g",".","n","a","m","e">>, <<"5","0","%"," ","o","f"," ","%","s","e","c","r","e","t">> }

Dollar(n) == <<"$">> \o itoa(n)

DollarRange(a, b) == <<"$">> \o itoa(a) \o <<"-">> \o itoa(b)

\* texts with the parameters of a command: every "$N", every "$a-b" with
\* a <= b, and some texts around them
ParameterTexts ==
    {Dollar(n) : n \in 1..MAXPARA}
    \cup {DollarRange(a, b) : a \in 1..4, b \in 1..4}
    \cup {DollarRange(a, b) : a \in {9, 10}, b \in {10, 12}}
    \cup { <<"$","1","-">>, <<"$","3","-">>, <<"P","R","I","V","M","S","G"," ","$","1"," ",":","$","2","-">>, <<"$","1","$","2">>, <<"c","o","s","t",":"," ","5","$">>, <<"h","e","l","l","o">> }

\* substitute_variables is called with a text, in a context: output is a
\* copy of input
CallSubstituteVariables ==
    /\ subst_op = "none"
    /\ \E input \in PlainTexts \cup VariableTexts, ctx \in SubstContexts :
          /\ subst_input' = input
          /\ subst_ctx' = ctx
          /\ subst_output' = input
    /\ subst_op' = "substitute_variables"
    /\ subst_pc' = "parameters"
    /\ UNCHANGED <<walkVars, queueVars, commandVars, blockVars, hostVars, execVars, gateVars, parseVars, loadVars, fnVars, objectVars, scriptVars, bool_expr, subst_p>>

SubstStep(pc) == subst_op = "substitute_variables" /\ subst_pc = pc

\* in a command context the parameters of the command come first
SubstParameters ==
    /\ SubstStep("parameters")
    /\ subst_output' = IF subst_ctx.in_command
                       THEN substitute_command_parameters(subst_output, subst_ctx.parv)
                       ELSE subst_output
    /\ subst_pc' = "functions"
    /\ UNCHANGED <<walkVars, queueVars, commandVars, blockVars, hostVars, execVars, gateVars, parseVars, loadVars, fnVars, objectVars, scriptVars, bool_expr, subst_p,
                   subst_op, subst_input, subst_ctx>>

\* the search for function calls, for a text that has none
SubstFunctions ==
    /\ SubstStep("functions")
    /\ ~HasFunctionCall(subst_output)
    /\ subst_pc' = "validation"
    /\ UNCHANGED <<walkVars, queueVars, commandVars, blockVars, hostVars, execVars, gateVars, parseVars, loadVars, fnVars, objectVars, scriptVars, bool_expr, subst_p,
                   subst_op, subst_input, subst_ctx, subst_output>>

\* the validation looks at input, not at output
SubstValidation ==
    /\ SubstStep("validation")
    /\ IF SyntaxErrorIn(subst_input)
       THEN subst_output' = SYNTAX_ERROR /\ subst_pc' = "returned"
       ELSE subst_output' = subst_output /\ subst_pc' = "client"
    /\ UNCHANGED <<walkVars, queueVars, commandVars, blockVars, hostVars, execVars, gateVars, parseVars, loadVars, fnVars, objectVars, scriptVars, bool_expr, subst_p,
                   subst_op, subst_input, subst_ctx>>

SubstClient ==
    /\ SubstStep("client")
    /\ subst_output' = ReplaceClient(subst_output, subst_ctx.client)
    /\ subst_pc' = "channel"
    /\ UNCHANGED <<walkVars, queueVars, commandVars, blockVars, hostVars, execVars, gateVars, parseVars, loadVars, fnVars, objectVars, scriptVars, bool_expr, subst_p,
                   subst_op, subst_input, subst_ctx>>

SubstChannel ==
    /\ SubstStep("channel")
    /\ subst_output' = ReplaceChannel(subst_output, subst_ctx.channel)
    /\ subst_pc' = "server"
    /\ UNCHANGED <<walkVars, queueVars, commandVars, blockVars, hostVars, execVars, gateVars, parseVars, loadVars, fnVars, objectVars, scriptVars, bool_expr, subst_p,
                   subst_op, subst_input, subst_ctx>>

\* $server.name and $time
SubstServer ==
    /\ SubstStep("server")
    /\ subst_output' = obbyscript_replace_string(
                           obbyscript_replace_string(subst_output, <<"$","s","e","r","v","e","r",".","n","a","m","e">>, ServerName),
                           <<"$","t","i","m","e">>, Now)
    /\ subst_pc' = "variables"
    /\ UNCHANGED <<walkVars, queueVars, commandVars, blockVars, hostVars, execVars, gateVars, parseVars, loadVars, fnVars, objectVars, scriptVars, bool_expr, subst_p,
                   subst_op, subst_input, subst_ctx>>

\* the script variables, and the return of output
SubstVariables ==
    /\ SubstStep("variables")
    /\ subst_output' = ReplaceVariables(subst_ctx.variables, subst_output, 1)
    /\ subst_pc' = "returned"
    /\ UNCHANGED <<walkVars, queueVars, commandVars, blockVars, hostVars, execVars, gateVars, parseVars, loadVars, fnVars, objectVars, scriptVars, bool_expr, subst_p,
                   subst_op, subst_input, subst_ctx>>

\* substitute_command_parameters is called with a text and the parameters
CallSubstituteCommandParameters ==
    /\ subst_op = "none"
    /\ \E text \in ParameterTexts, parv \in Parameters :
          /\ subst_input' = text
          /\ subst_ctx' = SubstContext(NoClient, NoChannel, TRUE, parv, init_global_scope)
          /\ subst_output' = substitute_command_parameters(text, parv)
    /\ subst_op' = "substitute_command_parameters"
    /\ subst_pc' = "returned"
    /\ UNCHANGED <<walkVars, queueVars, commandVars, blockVars, hostVars, execVars, gateVars, parseVars, loadVars, fnVars, objectVars, scriptVars, bool_expr, subst_p>>


(***************************************************************************)
(* The condition of an If: parse_bool_expression.                          *)
(***************************************************************************)
\* the depth of parentheses after the first k characters of str
ParenDepth(str, k) ==
    Cardinality({j \in 1..k : str[j] = "("}) - Cardinality({j \in 1..k : str[j] = ")"})

\* the first position of op in str, inside parentheses or not
find_operator(str, op) == Find(str, op)

\* the first position of the two-character op in str that is outside all
\* parentheses, 0 when there is none
find_top_level_operator(str, op) ==
    LET K == {p \in 1..(Len(str) - Len(op) + 1) :
                 /\ str[p] # "(" /\ str[p] # ")"
                 /\ ParenDepth(str, p - 1) = 0
                 /\ SubSeq(str, p, p + Len(op) - 1) = op}
    IN  IF K = {} THEN 0 ELSE CHOOSE p \in K : \A j \in K : p <= j

Simple(cond_str) == [type |-> "US_EXPR_SIMPLE", simple |-> cond_str]

Paren(grouped) == [type |-> "US_EXPR_PARENTHESES", grouped |-> grouped]

Or(left, right) == [type |-> "US_EXPR_OR", left |-> left, right |-> right]

And(left, right) == [type |-> "US_EXPR_AND", left |-> left, right |-> right]

\* the parentheses at both ends of trimmed match each other
IsOutermost(trimmed) ==
    /\ trimmed # <<>>
    /\ trimmed[1] = "("
    /\ trimmed[Len(trimmed)] = ")"
    /\ \A k \in 1..(Len(trimmed) - 1) : ParenDepth(trimmed, k) # 0

RECURSIVE parse_bool_expression(_)
\* the tree of a condition; a leaf holds the text given to
\* parse_simple_condition
parse_bool_expression(expr_str) ==
    IF expr_str = <<>> THEN NoExpr
    ELSE LET trimmed == Trim(expr_str)
             or_pos  == find_top_level_operator(trimmed, <<"|","|">>)
             and_pos == find_top_level_operator(trimmed, <<"&","&">>)
         IN  IF IsOutermost(trimmed)
             THEN Paren(parse_bool_expression(SubSeq(trimmed, 2, Len(trimmed) - 1)))
             ELSE IF or_pos # 0
             THEN Or(parse_bool_expression(SubSeq(trimmed, 1, or_pos - 1)),
                     parse_bool_expression(SubSeq(trimmed, or_pos + 2, Len(trimmed))))
             ELSE IF and_pos # 0
             THEN And(parse_bool_expression(SubSeq(trimmed, 1, and_pos - 1)),
                      parse_bool_expression(SubSeq(trimmed, and_pos + 2, Len(trimmed))))
             ELSE Simple(trimmed)

AndOr == <<"a"," ","&","&"," ","b"," ","|","|"," ","c">>

OrAnd == <<"a"," ","|","|"," ","b"," ","&","&"," ","c">>

ParenOrAnd == <<"(","a"," ","|","|"," ","b",")"," ","&","&"," ","c">>

\* the conditions the model parses
BoolTexts ==
    {AndOr, OrAnd, ParenOrAnd, <<>>, <<"a">>, <<" ","a"," ">>, <<"a"," ","&","&"," ","b">>, <<"a"," ","|","|"," ","b">>, <<"(","a",")">>,
     <<"(","(","a"," ","|","|"," ","b",")",")">>, <<"(","a",")"," ","&","&"," ","(","b",")">>, <<"a"," ","&","&"," ","(","b"," ","|","|"," ","c",")">>, <<"a"," ","|","|">>, <<"a"," ","|","|"," ","b"," ","|","|"," ","c">>,
     <<"a"," ","&","&"," ","b"," ","&","&"," ","c">>, <<"(","a"," ","&","&"," ","b",")"," ","|","|"," ","c">>, <<"a"," ","|","|"," ","(","b"," ","&","&"," ","c",")">>, <<"a"," ","&","&"," ","b"," ","|","|"," ","c"," ","&","&"," ","d">>}

\* parse_bool_expression is called with the text of a condition
CallParseBoolExpression ==
    /\ subst_op = "none"
    /\ \E expr_str \in BoolTexts :
          /\ subst_input' = expr_str
          /\ bool_expr' = parse_bool_expression(expr_str)
    /\ subst_op' = "parse_bool_expression"
    /\ subst_pc' = "returned"
    /\ UNCHANGED <<walkVars, queueVars, commandVars, blockVars, hostVars, execVars, gateVars, parseVars, loadVars, fnVars, objectVars, scriptVars,
                   subst_ctx, subst_output, subst_p>>

(***************************************************************************)
(* The loop of substitute_variables over the "%" of output, one pass at a  *)
(* time.                                                                   *)
(***************************************************************************)
\* %a holds its own name
SelfReference == set_variable(init_global_scope, 1, <<"%","a">>, <<"%","a">>, FALSE)

\* %a and %b hold each other's name
MutualReference ==
    set_variable(set_variable(init_global_scope, 1, <<"%","a">>, <<"%","b">>, FALSE),
                 1, <<"%","b">>, <<"%","a">>, FALSE)

LoopScopes == {init_global_scope, Greeting, SelfReference, MutualReference}

LoopTexts ==
    { <<>>, <<"h","e","l","l","o">>, <<"%","a">>, <<"%","b">>, <<"s","a","y"," ","%","a"," ","n","o","w">>, <<"%","g","r","e","e","t","i","n","g">>, <<"%","s","e","c","r","e","t"," ","%","a">>,
      <<"5","0","%"," ","o","f"," ","%","s","e","c","r","e","t">>, <<"%","m","i","s","s","i","n","g">>, <<"%","a",".","n","a","m","e">>, <<"%">> }

\* the loop is entered: p = output
CallVariableLoop ==
    /\ subst_op = "none"
    /\ \E input \in LoopTexts, variables \in LoopScopes :
          /\ subst_input' = input
          /\ subst_output' = input
          /\ subst_ctx' = SubstContext(NoClient, NoChannel, FALSE, <<>>, variables)
    /\ subst_op' = "variable_loop"
    /\ subst_pc' = "strchr"
    /\ subst_p' = 1
    /\ UNCHANGED <<walkVars, queueVars, commandVars, blockVars, hostVars, execVars, gateVars, parseVars, loadVars, fnVars, objectVars, scriptVars, bool_expr>>

LoopStep(pc) == subst_op = "variable_loop" /\ subst_pc = pc

\* the head of the loop: p = strchr(p, '%'); with no "%" left the function
\* returns output
LoopStrchr ==
    /\ LoopStep("strchr")
    /\ LET percent == strchr(subst_output, subst_p, "%")
       IN  /\ subst_p' = percent
           /\ subst_pc' = IF percent = 0 THEN "returned" ELSE "name"
    /\ UNCHANGED <<walkVars, queueVars, commandVars, blockVars, hostVars, execVars, gateVars, parseVars, loadVars, fnVars, objectVars, scriptVars, bool_expr,
                   subst_op, subst_input, subst_ctx, subst_output>>

\* the body of the loop: a name that has a value is replaced everywhere in
\* output and p goes back to the start of output; otherwise p moves past
\* the name, or past the "%" when no name follows it
LoopName ==
    /\ LoopStep("name")
    /\ LET output == subst_output
           var_name_end == NameEnd(output, subst_p + 1)
           prop_end == IF var_name_end <= Len(output) /\ output[var_name_end] = "."
                       THEN NameEnd(output, var_name_end + 1) ELSE 0
           var_end == IF prop_end > var_name_end + 1 THEN prop_end ELSE var_name_end
           value == get_variable(subst_ctx.variables, 1,
                                 SubSeq(output, subst_p + 1, var_name_end - 1))
       IN  IF var_name_end = subst_p + 1
           THEN subst_p' = subst_p + 1 /\ subst_output' = output
           ELSE IF value = NoText
           THEN subst_p' = var_end /\ subst_output' = output
           ELSE /\ subst_output' = obbyscript_replace_string(
                                       output, SubSeq(output, subst_p, var_end - 1), value)
                /\ subst_p' = 1
    /\ subst_pc' = "strchr"
    /\ UNCHANGED <<walkVars, queueVars, commandVars, blockVars, hostVars, execVars, gateVars, parseVars, loadVars, fnVars, objectVars, scriptVars, bool_expr,
                   subst_op, subst_input, subst_ctx>>

(***************************************************************************)
(* Variables of kind Client and Channel: find_client and find_channel give *)
(* a script the host's object, and the variable keeps the pointer.         *)
(***************************************************************************)
\* the host's lookup of a client or channel by name: NULL when there is none
HostFind(name) == IF heap[name].live THEN Pointer(name, heap[name].gen) ELSE NullPointer

\* obbyscript_find_client and obbyscript_find_channel: the result is a
\* variable with the object, and one with the text $false when the lookup
\* finds nothing
obbyscript_find(name, type) ==
    IF HostFind(name) = NullPointer
    THEN [type |-> "US_VAR_STRING", value |-> DollarFalse, object_ptr |-> NullPointer]
    ELSE [type |-> type, value |-> NoText, object_ptr |-> HostFind(name)]

\* set_variable_object: the variable of the scope gets the type and the
\* pointer, and no text value
set_variable_object(variables, name, object_ptr, type) ==
    [variables EXCEPT ![name] = [type |-> type, value |-> NoText, object_ptr |-> object_ptr]]

\* the object a pointer was taken from has been freed since
Dangling(object_ptr) ==
    ~heap[object_ptr.name].live \/ heap[object_ptr.name].gen # object_ptr.gen

\* a client connects, or a channel is created: the host allocates an object
HostAllocates ==
    /\ \E n \in ClientNames \cup ChannelNames :
          /\ ~heap[n].live
          /\ heap[n].gen < MaxConnects
          /\ heap' = [heap EXCEPT ![n] = [live |-> TRUE, gen |-> @.gen + 1]]
    /\ objRead' = NoObjRead
    /\ UNCHANGED <<walkVars, queueVars, commandVars, blockVars, hostVars, execVars, gateVars, parseVars, loadVars, fnVars, scriptVars, substVars,
                   object_vars>>

\* a client quits, or the last user leaves a channel: the QUIT and
\* CHANNEL_DESTROY hooks run the rules of the event, and the host frees the
\* object
HostFrees ==
    /\ \E n \in ClientNames \cup ChannelNames :
          /\ heap[n].live
          /\ heap' = [heap EXCEPT ![n].live = FALSE]
    /\ objRead' = NoObjRead
    /\ UNCHANGED <<walkVars, queueVars, commandVars, blockVars, hostVars, execVars, gateVars, parseVars, loadVars, fnVars, scriptVars, substVars,
                   object_vars>>

\* case US_ACTION_VAR with a built-in function: "var %name = find_client(nick)"
\* and "var %name = find_channel(name)"
ExecVarBuiltin ==
    /\ \E v \in ObjectVarNames, n \in ClientNames \cup ChannelNames :
          LET result == obbyscript_find(n, IF n \in ClientNames THEN "US_VAR_CLIENT"
                                           ELSE "US_VAR_CHANNEL")
          IN  object_vars' =
                  IF result.type = "US_VAR_STRING"
                  THEN [object_vars EXCEPT ![v] = result]
                  ELSE set_variable_object(object_vars, v, result.object_ptr, result.type)
    /\ objRead' = NoObjRead
    /\ UNCHANGED <<walkVars, queueVars, commandVars, blockVars, hostVars, execVars, gateVars, parseVars, loadVars, fnVars, scriptVars, substVars,
                   heap>>

\* substitute_variables on "%name.name": the variable's object_ptr is
\* dereferenced when it is not NULL; the read of a freed object faults or
\* gives whatever the memory holds
SubstituteProperty ==
    /\ \E v \in ObjectVarNames :
          /\ object_vars[v].object_ptr # NullPointer
          /\ \E outcome \in IF Dangling(object_vars[v].object_ptr)
                            THEN {"fault", "garbage"} ELSE {"value"} :
                objRead' = [name |-> v, dangling |-> Dangling(object_vars[v].object_ptr),
                            outcome |-> outcome]
    /\ UNCHANGED <<walkVars, queueVars, commandVars, blockVars, hostVars, execVars, gateVars, parseVars, loadVars, fnVars, scriptVars, substVars,
                   heap, object_vars>>

\* an action of a rule's tree: next, nested_actions and else_actions are the
\* positions of other actions of the tree, 0 for NULL; passes is the number
\* of passes a loop's condition allows
ActionNode(type, next, nested_actions, else_actions, passes) ==
    [type |-> type, next |-> next, nested_actions |-> nested_actions,
     else_actions |-> else_actions, passes |-> passes]


(***************************************************************************)
(* execute_script_action on the tree of a rule, with the next pointers of  *)
(* the rule_actions as the walks of nested lists save, clear and restore them.  *)
(* A Command may make the host call the hook of the rule's event again.    *)
(***************************************************************************)
\* if (c) { if (c) { PRIVMSG ... } sendnotice }
ReenterRule ==
    << ActionNode("US_ACTION_IF", 0, 2, 0, 0),
       ActionNode("US_ACTION_IF", 3, 4, 0, 0),
       ActionNode("US_ACTION_SENDNOTICE", 0, 0, 0, 0),
       ActionNode("US_ACTION_COMMAND", 0, 0, 0, 0) >>

\* if (c) { sendnotice; return; sendnotice } else { break; sendnotice }; sendnotice
ReturnRule ==
    << ActionNode("US_ACTION_IF", 7, 2, 5, 0),
       ActionNode("US_ACTION_SENDNOTICE", 3, 0, 0, 0),
       ActionNode("US_ACTION_RETURN", 4, 0, 0, 0),
       ActionNode("US_ACTION_SENDNOTICE", 0, 0, 0, 0),
       ActionNode("US_ACTION_BREAK", 6, 0, 0, 0),
       ActionNode("US_ACTION_SENDNOTICE", 0, 0, 0, 0),
       ActionNode("US_ACTION_SENDNOTICE", 0, 0, 0, 0) >>

\* while (two passes) { if (c) { break } else { continue }; sendnotice; continue }; sendnotice
BreakRule ==
    << ActionNode("US_ACTION_WHILE", 7, 2, 0, 2),
       ActionNode("US_ACTION_IF", 3, 5, 6, 0),
       ActionNode("US_ACTION_SENDNOTICE", 4, 0, 0, 0),
       ActionNode("US_ACTION_CONTINUE", 0, 0, 0, 0),
       ActionNode("US_ACTION_BREAK", 0, 0, 0, 0),
       ActionNode("US_ACTION_CONTINUE", 0, 0, 0, 0),
       ActionNode("US_ACTION_SENDNOTICE", 0, 0, 0, 0) >>

\* while ($true) { sendnotice }; sendnotice
CapRule ==
    << ActionNode("US_ACTION_WHILE", 3, 2, 0, MAX_LOOP_ITERATIONS),
       ActionNode("US_ACTION_SENDNOTICE", 0, 0, 0, 0),
       ActionNode("US_ACTION_SENDNOTICE", 0, 0, 0, 0) >>

\* for (%i in 1..2) { PRIVMSG ...; if (c) { return }; sendnotice }
RangeRule ==
    << ActionNode("US_ACTION_FOR", 0, 2, 0, 2),
       ActionNode("US_ACTION_COMMAND", 3, 0, 0, 0),
       ActionNode("US_ACTION_IF", 5, 4, 0, 0),
       ActionNode("US_ACTION_RETURN", 0, 0, 0, 0),
       ActionNode("US_ACTION_SENDNOTICE", 0, 0, 0, 0) >>

WalkRules == {ReenterRule, ReturnRule, BreakRule, CapRule, RangeRule}

\* the next pointers of a tree
NextPointers(acts) == [k \in 1..Len(acts) |-> acts[k].next]

\* current_nested->next = NULL
Cleared(acts, current_nested) == [acts EXCEPT ![current_nested].next = 0]

\* the walk goes on without giving the pointer its value back
NotRestored(acts, current_nested, saved_next) == acts

\* current_nested->next = saved_next
Restored(acts, current_nested, saved_next) == [acts EXCEPT ![current_nested].next = saved_next]

\* a call execute_script_action(action, ...): before is the value of the next
\* pointers when the call is made, event says that the call is the one of
\* execute_scripts_for_event
CallOf(acts, action, event) ==
    [action |-> action, pc |-> "enter", current_nested |-> 0, saved_next |-> 0,
     loop_safety_counter |-> 0, before |-> NextPointers(acts), event |-> event]

TopWalker == walkers[Len(walkers)]

WalkerAt(pcs) == walkers # <<>> /\ TopWalker.pc \in pcs

SetWalker(f) == [walkers EXCEPT ![Len(walkers)] = f]

CallReturns == SubSeq(walkers, 1, Len(walkers) - 1)

\* the hook calls of the rule's event made while a rule of the event runs
Reentries == Cardinality({k \in 2..Len(walkers) : walkers[k].event})

\* a hook of the host calls execute_scripts_for_event, and the rule matches
WalkEvent ==
    /\ walkers = <<>>
    /\ runs < MaxRuns
    /\ runs' = runs + 1
    /\ \E rule \in WalkRules :
          /\ rule_actions' = rule
          /\ walkers' = <<CallOf(rule, 1, TRUE)>>
    /\ UNCHANGED <<walkKeeps, should_break, should_continue, return_val>>

\* the cases without control flow, and Break and Continue, which set their
\* flag: the call goes on to its tail
WalkPlain ==
    /\ WalkerAt({"enter"})
    /\ LET type == rule_actions[TopWalker.action].type
       IN  /\ type \in {"US_ACTION_SENDNOTICE", "US_ACTION_BREAK", "US_ACTION_CONTINUE"}
           /\ should_break' = IF type = "US_ACTION_BREAK" THEN 1 ELSE should_break
           /\ should_continue' = IF type = "US_ACTION_CONTINUE" THEN 1 ELSE should_continue
    /\ walkers' = SetWalker([TopWalker EXCEPT !.pc = "tail"])
    /\ UNCHANGED <<walkKeeps, rule_actions, return_val, runs>>

\* case US_ACTION_RETURN: __return__ is set and the call returns
WalkReturn ==
    /\ WalkerAt({"enter"})
    /\ rule_actions[TopWalker.action].type = "US_ACTION_RETURN"
    /\ return_val' = <<DollarTrue>>
    /\ walkers' = CallReturns
    /\ UNCHANGED <<walkKeeps, rule_actions, should_break, should_continue, runs>>

\* case US_ACTION_COMMAND: a syntax error makes the call return; otherwise
\* the command is dispatched, and the host may call the hook of the rule's
\* event before do_cmd returns
WalkCommand ==
    /\ WalkerAt({"enter"})
    /\ rule_actions[TopWalker.action].type = "US_ACTION_COMMAND"
    /\ \/ walkers' = CallReturns
       \/ walkers' = SetWalker([TopWalker EXCEPT !.pc = "tail"])
       \/ /\ Reentries < MaxReentry
          /\ walkers' = SetWalker([TopWalker EXCEPT !.pc = "tail"])
                            \o <<CallOf(rule_actions, 1, TRUE)>>
    /\ UNCHANGED <<walkKeeps, rule_actions, should_break, should_continue, return_val, runs>>

\* case US_ACTION_IF: the branch the condition selects is walked
WalkIf ==
    /\ WalkerAt({"enter"})
    /\ rule_actions[TopWalker.action].type = "US_ACTION_IF"
    /\ \E cond \in BOOLEAN :
          LET a == rule_actions[TopWalker.action]
          IN  walkers' = SetWalker(
                  IF cond /\ a.nested_actions # 0
                  THEN [TopWalker EXCEPT !.pc = "nested", !.current_nested = a.nested_actions]
                  ELSE IF ~cond /\ a.else_actions # 0
                  THEN [TopWalker EXCEPT !.pc = "else", !.current_nested = a.else_actions]
                  ELSE [TopWalker EXCEPT !.pc = "after"])
    /\ UNCHANGED <<walkKeeps, rule_actions, should_break, should_continue, return_val, runs>>

\* case US_ACTION_WHILE and the range form of US_ACTION_FOR: the loop is
\* entered
WalkLoop ==
    /\ WalkerAt({"enter"})
    /\ rule_actions[TopWalker.action].type \in {"US_ACTION_WHILE", "US_ACTION_FOR"}
    /\ walkers' = SetWalker([TopWalker EXCEPT
                      !.pc = IF rule_actions[TopWalker.action].type = "US_ACTION_WHILE"
                             THEN "while" ELSE "for"])
    /\ UNCHANGED <<walkKeeps, rule_actions, should_break, should_continue, return_val, runs>>

\* the head of a While: the cap, then the condition; the flags are cleared
\* before the body
WalkWhile ==
    /\ WalkerAt({"while"})
    /\ LET f == TopWalker
           enters == /\ f.loop_safety_counter < MAX_LOOP_ITERATIONS
                     /\ f.loop_safety_counter < rule_actions[f.action].passes
       IN  /\ walkers' = SetWalker(
                  IF enters
                  THEN [f EXCEPT !.pc = "while_body",
                                 !.current_nested = rule_actions[f.action].nested_actions]
                  ELSE [f EXCEPT !.pc = "tail"])
           /\ should_break' = IF enters THEN 0 ELSE should_break
           /\ should_continue' = IF enters THEN 0 ELSE should_continue
    /\ UNCHANGED <<walkKeeps, rule_actions, return_val, runs>>

\* after the body of a While: a Break leaves the loop
WalkWhileEnd ==
    /\ WalkerAt({"while_end"})
    /\ walkers' = SetWalker(
           IF should_break = 1 THEN [TopWalker EXCEPT !.pc = "tail"]
           ELSE [TopWalker EXCEPT !.pc = "while", !.loop_safety_counter = @ + 1])
    /\ UNCHANGED <<walkKeeps, rule_actions, should_break, should_continue, return_val, runs>>

\* the head of a range For
WalkFor ==
    /\ WalkerAt({"for"})
    /\ LET f == TopWalker
       IN  walkers' = SetWalker(
               IF f.loop_safety_counter < rule_actions[f.action].passes
               THEN [f EXCEPT !.pc = "for_body",
                              !.current_nested = rule_actions[f.action].nested_actions]
               ELSE [f EXCEPT !.pc = "tail"])
    /\ UNCHANGED <<walkKeeps, rule_actions, should_break, should_continue, return_val, runs>>

\* while (current_nested): at the end of the list the walk is over;
\* otherwise the pointer of current_nested is saved and cleared, and the
\* action is executed, except a Break or Continue in the body of a While,
\* which sets its flag and ends the walk with the pointer restored
WalkNested ==
    /\ WalkerAt({"nested", "else", "while_body", "for_body"})
    /\ LET f == TopWalker
           cur == f.current_nested
       IN  IF cur = 0
           THEN /\ walkers' = SetWalker(
                       CASE f.pc \in {"nested", "else"} -> [f EXCEPT !.pc = "after"]
                         [] f.pc = "while_body" -> [f EXCEPT !.pc = "while_end"]
                         [] f.pc = "for_body" ->
                                [f EXCEPT !.pc = "for", !.loop_safety_counter = @ + 1])
                /\ UNCHANGED <<rule_actions, should_break, should_continue>>
           ELSE IF f.pc = "while_body"
                   /\ rule_actions[cur].type \in {"US_ACTION_BREAK", "US_ACTION_CONTINUE"}
           THEN /\ should_break' = IF rule_actions[cur].type = "US_ACTION_BREAK"
                                   THEN 1 ELSE should_break
                /\ should_continue' = IF rule_actions[cur].type = "US_ACTION_CONTINUE"
                                      THEN 1 ELSE should_continue
                /\ rule_actions' = Restored(Cleared(rule_actions, cur), cur, rule_actions[cur].next)
                /\ walkers' = SetWalker([f EXCEPT !.pc = "while_end",
                                                  !.saved_next = rule_actions[cur].next])
           ELSE /\ rule_actions' = Cleared(rule_actions, cur)
                /\ walkers' = SetWalker([f EXCEPT !.pc = "restore_" \o f.pc,
                                                  !.saved_next = rule_actions[cur].next])
                                  \o <<CallOf(Cleared(rule_actions, cur), cur, FALSE)>>
                /\ UNCHANGED <<should_break, should_continue>>
    /\ UNCHANGED <<walkKeeps, return_val, runs>>

\* the walk a restore belongs to
WalkOf(pc) ==
    CASE pc = "restore_nested" -> "nested"
      [] pc = "restore_else" -> "else"
      [] pc = "restore_while_body" -> "while_body"
      [] pc = "restore_for_body" -> "for_body"

\* after execute_script_action(current_nested) has returned: the pointer
\* is restored; with __return__ set the call returns, with a flag set the
\* walk of the nested rule_actions of an If ends, otherwise the walk goes on
WalkRestore ==
    /\ WalkerAt({"restore_nested", "restore_else", "restore_while_body", "restore_for_body"})
    /\ LET f == TopWalker
       IN  /\ rule_actions' = Restored(rule_actions, f.current_nested, f.saved_next)
           /\ walkers' =
                  IF return_val # <<>> THEN CallReturns
                  ELSE IF f.pc = "restore_nested" /\ (should_break = 1 \/ should_continue = 1)
                  THEN SetWalker([f EXCEPT !.pc = "after"])
                  ELSE SetWalker([f EXCEPT !.pc = WalkOf(f.pc),
                                           !.current_nested = f.saved_next])
    /\ UNCHANGED <<walkKeeps, should_break, should_continue, return_val, runs>>

\* after the branch of an If: action->next is executed, and the call returns
WalkAfterIf ==
    /\ WalkerAt({"after"})
    /\ walkers' = IF rule_actions[TopWalker.action].next # 0
                  THEN SetWalker([TopWalker EXCEPT !.pc = "done"])
                           \o <<CallOf(rule_actions, rule_actions[TopWalker.action].next, FALSE)>>
                  ELSE CallReturns
    /\ UNCHANGED <<walkKeeps, rule_actions, should_break, should_continue, return_val, runs>>

\* the tail of execute_script_action: action->next is executed unless
\* __return__ is set
WalkTail ==
    /\ WalkerAt({"tail"})
    /\ walkers' = IF /\ rule_actions[TopWalker.action].next # 0
                     /\ rule_actions[TopWalker.action].type # "US_ACTION_IF"
                     /\ return_val = <<>>
                  THEN SetWalker([TopWalker EXCEPT !.pc = "done"])
                           \o <<CallOf(rule_actions, rule_actions[TopWalker.action].next, FALSE)>>
                  ELSE CallReturns
    /\ UNCHANGED <<walkKeeps, rule_actions, should_break, should_continue, return_val, runs>>

\* the call of action->next has returned, and so does this call
WalkDone ==
    /\ WalkerAt({"done"})
    /\ walkers' = CallReturns
    /\ UNCHANGED <<walkKeeps, rule_actions, should_break, should_continue, return_val, runs>>

(***************************************************************************)
(* The order of the deferred list: add_deferred_action and the loop of     *)
(* execute_deferred_actions, with the entries the script has issued and    *)
(* the entries the replay has dispatched, both in the order of time.       *)
(***************************************************************************)
\* execute_script_action hands a destructive command to add_deferred_action
QueueDefer ==
    /\ executing_deferred_actions = 0
    /\ Len(deferred_actions) < MaxQueue
    /\ \E command \in {KICK, KILL, KLINE}, client_name \in liveClients :
          /\ is_destructive_command(command)
          /\ deferred_actions' = add_deferred_action(command, client_name, NULL)
          /\ issued' = Append(issued, deferred_actions'[1])
    /\ UNCHANGED <<queueKeeps, executing_deferred_actions, replay_action, replayed>>

\* execute_deferred_actions, up to the first entry: action = deferred_actions
QueueReplay ==
    /\ ~ReplayInProgress
    /\ deferred_actions # <<>>
    /\ executing_deferred_actions' = 1
    /\ replay_action' = 1
    /\ replayed' = <<>>
    /\ UNCHANGED <<queueKeeps, deferred_actions, issued>>

\* one pass of the loop: the entry is skipped or handed to do_cmd, and
\* action = next
QueueReplayStep ==
    /\ ReplayInProgress
    /\ replay_action \in 1..Len(deferred_actions)
    /\ replayed' = IF ReplaySkips(deferred_actions[replay_action])
                   THEN replayed
                   ELSE Append(replayed, deferred_actions[replay_action])
    /\ replay_action' = replay_action + 1
    /\ UNCHANGED <<queueKeeps, deferred_actions, executing_deferred_actions, issued>>

\* the end of the loop: free_deferred_actions, and the flag is reset
QueueReplayEnd ==
    /\ ReplayInProgress
    /\ replay_action > Len(deferred_actions)
    /\ deferred_actions' = <<>>
    /\ executing_deferred_actions' = 0
    /\ replay_action' = 0
    /\ issued' = <<>>
    /\ UNCHANGED <<queueKeeps, replayed>>

(***************************************************************************)
(* The table of the commands the scripts define: register_commands_for_file*)
(* as load_script_file calls it, the two handlers the host calls, and the  *)
(* configuration run and the unloading as far as the table goes.           *)
(***************************************************************************)
HELLO == <<"H","E","L","L","O">>
Hello == <<"h","e","l","l","o">>

CommandRules ==
    { CommandRule(event, target) :
          event \in {"US_EVENT_COMMAND_NEW", "US_EVENT_COMMAND_OVERRIDE"},
          target \in {HELLO, Hello, KICK} }

\* the rule lists of the script files: no rule, one rule, two rules
CommandFiles ==
    {<<>>} \cup {<<r>> : r \in CommandRules}
           \cup {<<r, q>> : r \in {CommandRule("US_EVENT_COMMAND_NEW", HELLO)}, q \in CommandRules}

\* the entry of a rule: cmd_ptr of a new command is NULL when the host
\* refuses the name, ovr_ptr is what CommandOverrideAdd returned
ObbyScriptCommand(file, i, refused) ==
    [command |-> file.rules[i].target,
     rule |-> [gen |-> file.gen, index |-> i],
     cmd_ptr |-> file.rules[i].event = "US_EVENT_COMMAND_NEW" /\ ~refused,
     ovr_ptr |-> file.rules[i].event = "US_EVENT_COMMAND_OVERRIDE"]

\* the names the host has a command of the module for
HostCommands(table) ==
    {table[k].command : k \in {j \in 1..Len(table) : table[j].cmd_ptr}}

RECURSIVE register_commands_for_file(_, _, _)
\* register_commands_for_file from rule i on: every command rule gets an
\* entry at the head of the table; the host refuses a new command whose name
\* it has already, whatever the case of its letters
register_commands_for_file(file, i, table) ==
    IF i > Len(file.rules) THEN table
    ELSE register_commands_for_file(file, i + 1,
             <<ObbyScriptCommand(file, i,
                   \E n \in HostCommands(table) : strcasecmp(n, file.rules[i].target) = 0)>>
                 \o table)

\* the rule an entry points to has been freed
FreedRule(cmd) == cmd.rule.gen # command_files.gen

\* obbyscript_configrun: the script files are freed, the configured file is
\* loaded and its commands are registered
CommandsConfigRun ==
    /\ ~unloaded
    /\ command_files.gen < MaxReloads
    /\ \E file_rules \in CommandFiles :
          LET file == CommandFile(command_files.gen + 1, file_rules)
          IN  /\ command_files' = file
              /\ registered_commands' = register_commands_for_file(file, 1, registered_commands)
    /\ cmd_read' = NoCmdRead
    /\ UNCHANGED <<commandKeeps, unloaded>>

\* obbyscript_command_handler: the first entry with a cmd_ptr and the name
\* of the command runs the actions of its rule
CommandHandler ==
    /\ ~unloaded
    /\ \E name \in HostCommands(registered_commands) :
          LET M == {k \in 1..Len(registered_commands) :
                       /\ registered_commands[k].cmd_ptr
                       /\ strcasecmp(registered_commands[k].command, name) = 0}
              first == CHOOSE k \in M : \A j \in M : k <= j
          IN  cmd_read' = [command |-> name, dangling |-> FreedRule(registered_commands[first])]
    /\ UNCHANGED <<commandKeeps, unloaded, command_files, registered_commands>>

\* obbyscript_command_override_handler: the entry of the override the host
\* calls runs the actions of its rule
CommandOverrideHandler ==
    /\ ~unloaded
    /\ \E k \in 1..Len(registered_commands) :
          /\ registered_commands[k].ovr_ptr
          /\ cmd_read' = [command |-> registered_commands[k].command,
                          dangling |-> FreedRule(registered_commands[k])]
    /\ UNCHANGED <<commandKeeps, unloaded, command_files, registered_commands>>

\* MOD_UNLOAD: unregister_script_commands frees the table, the script files
\* are freed, and the host drops the commands and the hooks of the module
CommandsUnload ==
    /\ ~unloaded
    /\ command_files.gen > 0
    /\ registered_commands' = <<>>
    /\ command_files' = NoCommandFile
    /\ unloaded' = TRUE
    /\ cmd_read' = NoCmdRead
    /\ UNCHANGED commandKeeps

(***************************************************************************)
(* parse_action_block line by line, on rule bodies with a loop inside the  *)
(* block of an If or of an Else, and with a loop of the rule itself.       *)
(***************************************************************************)
WhileLine == <<" "," "," "," "," "," "," "," ","w","h","i","l","e"," ","(","%","i"," ","<"," ","3",")"," ","{">>
ForLine == <<" "," "," "," "," "," "," "," ","f","o","r"," ","(","%","i"," ","i","n"," ","1",".",".","3",")"," ","{">>
ForCLine == <<" "," "," "," "," "," "," "," ","f","o","r"," ","(","v","a","r"," ","%","i"," ","="," ","1",";"," ","%","i"," ","!","="," ","3",";"," ","%","i","+","+",")"," ","{">>
CloseLoopLine == <<" "," "," "," "," "," "," "," ","}">>
ElseLine == <<" "," "," "," ","e","l","s","e"," ","{">>

LoopLines == {WhileLine, ForLine, ForCLine}

\* if (...) { <loop> { <action> } } and what follows
LoopInIf ==
    { <<IfBob, loop, body, CloseLoopLine, CloseInner>> \o after :
          loop \in LoopLines, body \in {HelloBob, WhoAreYou},
          after \in {<<>>, <<Welcome>>} }

\* if (...) { <action> } else { <loop> { <action> } } and what follows
LoopInElse ==
    { <<IfBob, HelloBob, CloseInner, ElseLine, loop, body, CloseLoopLine, CloseInner>> \o after :
          loop \in LoopLines, body \in {HelloBob, WhoAreYou},
          after \in {<<>>, <<Welcome>>} }

\* <loop> { <action> } and what follows
LoopInRule ==
    { <<loop, body, CloseInner>> \o after :
          loop \in LoopLines, body \in {HelloBob, WhoAreYou},
          after \in {<<>>, <<Welcome>>} }

BlockContents == LoopInIf \cup LoopInElse \cup LoopInRule

\* parse_action_block is called with the body of a rule
CallParseActionBlock ==
    /\ block_parse.k > Len(block_content)
    /\ \E content \in BlockContents : block_content' = content
    /\ block_parse' = [k |-> 1, st |-> NoParse]
    /\ UNCHANGED blockKeeps

\* one pass of its loop over the lines
ParseBlockLine ==
    /\ block_parse.k <= Len(block_content)
    /\ block_parse' = ParseStep(block_content, block_parse.k, block_parse.st)
    /\ UNCHANGED <<blockKeeps, block_content>>
----
Init ==
    /\ script \in {S \in SUBSET CommandSpellings : Cardinality(S) = MaxNames}
    /\ liveClients = Clients
    /\ liveChannels = Channels
    /\ stack = <<>>
    /\ deferred_actions = <<>>
    /\ executing_deferred_actions = 0
    /\ in_join_context = 0
    /\ lastDispatch = NoDispatch
    /\ chanRead = NoRead
    /\ lost = FALSE
    /\ blocked = FALSE
    /\ crashed = FALSE
    /\ events = 0
    /\ cmds = 0
    /\ script_files = NoFile
    /\ global_functions = <<>>
    /\ pending_caps = <<>>
    /\ reloads = 0
    /\ unloaded = FALSE
    /\ program = NoProgram
    /\ scopes = init_global_scope
    /\ global_scope = 1
    /\ calls = <<>>
    /\ overflow = FALSE
    /\ const_decl = {}
    /\ fn_runs = 0
    /\ TextIdle
    /\ frames = <<>>
    /\ should_break = 0
    /\ should_continue = 0
    /\ return_val = <<>>
    /\ var_i = Unset
    /\ returned = FALSE
    /\ aborted = FALSE
    /\ executed = NoExec
    /\ times = <<>>
    /\ loopExit = NoExit
    /\ runs = 0
    /\ inline_return = ""
    /\ reached = ""
    /\ gate = NoGate
    /\ layout = <<>>
    /\ event_client = NULL
    /\ notices = <<>>

Next ==
    \/ obbyscript_local_join
    \/ obbyscript_remote_join
    \/ obbyscript_event_hook
    \/ obbyscript_post_command
    \/ ExecCommandNoClient
    \/ ExecCommandDefer
    \/ ExecCommandDispatch
    \/ ExecCommandFault
    \/ DoCmdFree
    \/ DoCmdReturn
    \/ HostCreate
    \/ obbyscript_execute_deferred_timer
    \/ PostCommandReplay
    \/ ReplayStep
    \/ ReplayFinish
    \/ HookReturn

Spec == Init /\ [][Next]_vars

\* the control flow alone: the host stays as it is after MOD_INIT
InitExec ==
    /\ script = {}
    /\ liveClients = Clients
    /\ liveChannels = Channels
    /\ stack = <<>>
    /\ deferred_actions = <<>>
    /\ executing_deferred_actions = 0
    /\ in_join_context = 0
    /\ lastDispatch = NoDispatch
    /\ chanRead = NoRead
    /\ lost = FALSE
    /\ blocked = FALSE
    /\ crashed = FALSE
    /\ events = 0
    /\ cmds = 0
    /\ script_files = NoFile
    /\ global_functions = <<>>
    /\ pending_caps = <<>>
    /\ reloads = 0
    /\ unloaded = FALSE
    /\ program = NoProgram
    /\ scopes = init_global_scope
    /\ global_scope = 1
    /\ calls = <<>>
    /\ overflow = FALSE
    /\ const_decl = {}
    /\ fn_runs = 0
    /\ TextIdle
    /\ frames = <<>>
    /\ should_break = 0
    /\ should_continue = 0
    /\ return_val = <<>>
    /\ var_i = Unset
    /\ returned = FALSE
    /\ aborted = FALSE
    /\ executed = NoExec
    /\ times = <<>>
    /\ loopExit = NoExit
    /\ runs = 0
    /\ inline_return = ""
    /\ reached = ""
    /\ gate = NoGate
    /\ layout = <<>>
    /\ event_client = NULL
    /\ notices = <<>>

NextExec ==
    \/ execute_scripts_for_event
    \/ ExecSendNotice
    \/ ExecCommand
    \/ ExecBreak
    \/ ExecContinue
    \/ LoopBreak
    \/ LoopContinue
    \/ ExecReturn
    \/ ExecIf
    \/ ExecWhile
    \/ ExecFor
    \/ ExecForRange
    \/ LoopHead
    \/ RangeHead

SpecExec == InitExec /\ [][NextExec]_vars

\* the join gate and the actions its rules use
NextGate ==
    \/ obbyscript_can_join
    \/ CanJoinCheck
    \/ CanJoinAdvance
    \/ execute_start_events
    \/ StartAdvance
    \/ ExecSendNotice
    \/ ExecReturn
    \/ ExecIf

SpecGate == InitExec /\ [][NextGate]_vars

\* a PRIVMSG rule with an If and an Else is loaded, and PRIVMSG events fire
InitParse ==
    /\ script = {}
    /\ liveClients = Clients
    /\ liveChannels = Channels
    /\ stack = <<>>
    /\ deferred_actions = <<>>
    /\ executing_deferred_actions = 0
    /\ in_join_context = 0
    /\ lastDispatch = NoDispatch
    /\ chanRead = NoRead
    /\ lost = FALSE
    /\ blocked = FALSE
    /\ crashed = FALSE
    /\ events = 0
    /\ cmds = 0
    /\ script_files = NoFile
    /\ global_functions = <<>>
    /\ pending_caps = <<>>
    /\ reloads = 0
    /\ unloaded = FALSE
    /\ program = NoProgram
    /\ scopes = init_global_scope
    /\ global_scope = 1
    /\ calls = <<>>
    /\ overflow = FALSE
    /\ const_decl = {}
    /\ fn_runs = 0
    /\ TextIdle
    /\ frames = <<>>
    /\ should_break = 0
    /\ should_continue = 0
    /\ return_val = <<>>
    /\ var_i = Unset
    /\ returned = FALSE
    /\ aborted = FALSE
    /\ executed = NoExec
    /\ times = <<>>
    /\ loopExit = NoExit
    /\ runs = 0
    /\ inline_return = ""
    /\ reached = ""
    /\ gate = NoGate
    /\ layout \in Layouts
    /\ event_client = NULL
    /\ notices = <<>>

NextParse ==
    \/ obbyscript_usermsg
    \/ ExecIf
    \/ ExecSendNotice

SpecParse == InitParse /\ [][NextParse]_vars

\* configuration runs, the events between them and the unloading
NextLoad ==
    \/ obbyscript_configrun
    \/ MOD_UNLOAD
    \/ obbyscript_event_hook
    \/ ExecCommandNoClient
    \/ ExecCommandDefer
    \/ HookReturn

SpecLoad == InitExec /\ [][NextLoad]_vars

\* a script with functions is loaded
InitFn ==
    /\ script = {}
    /\ liveClients = Clients
    /\ liveChannels = Channels
    /\ stack = <<>>
    /\ deferred_actions = <<>>
    /\ executing_deferred_actions = 0
    /\ in_join_context = 0
    /\ lastDispatch = NoDispatch
    /\ chanRead = NoRead
    /\ lost = FALSE
    /\ blocked = FALSE
    /\ crashed = FALSE
    /\ events = 0
    /\ cmds = 0
    /\ script_files = NoFile
    /\ global_functions = <<>>
    /\ pending_caps = <<>>
    /\ reloads = 0
    /\ unloaded = FALSE
    /\ program \in Programs
    /\ scopes = init_global_scope
    /\ global_scope = 1
    /\ calls = <<>>
    /\ overflow = FALSE
    /\ const_decl = {}
    /\ fn_runs = 0
    /\ TextIdle
    /\ frames = <<>>
    /\ should_break = 0
    /\ should_continue = 0
    /\ return_val = <<>>
    /\ var_i = Unset
    /\ returned = FALSE
    /\ aborted = FALSE
    /\ executed = NoExec
    /\ times = <<>>
    /\ loopExit = NoExit
    /\ runs = 0
    /\ inline_return = ""
    /\ reached = ""
    /\ gate = NoGate
    /\ layout = <<>>
    /\ event_client = NULL
    /\ notices = <<>>

\* the rule of the script runs, with the calls it makes
NextFn ==
    \/ RunRule
    \/ ExecVar
    \/ ExecArithmetic
    \/ ExecFunctionCall
    \/ ExecReturnStatement
    \/ FunctionEnd
    \/ RuleEnd

SpecFn == InitFn /\ [][NextFn]_vars

NextScript ==
    \/ ReadFile
    \/ SkipLine
    \/ OnLine
    \/ BodyLine
    \/ AddRule
    \/ OtherLine
    \/ FileParsed

SpecScript == InitExec /\ [][NextScript]_vars

NextSubst ==
    \/ CallSubstituteVariables
    \/ SubstParameters
    \/ SubstFunctions
    \/ SubstValidation
    \/ SubstClient
    \/ SubstChannel
    \/ SubstServer
    \/ SubstVariables
    \/ CallSubstituteCommandParameters
    \/ CallParseBoolExpression

SpecSubst == InitExec /\ [][NextSubst]_vars

NextLoop ==
    \/ CallVariableLoop
    \/ LoopStrchr
    \/ LoopName

\* the loop is straight-line code of one thread: a pass that can run does run
SpecLoop == InitExec /\ [][NextLoop]_vars /\ WF_vars(LoopStrchr) /\ WF_vars(LoopName)

NextObject ==
    \/ HostAllocates
    \/ HostFrees
    \/ ExecVarBuiltin
    \/ SubstituteProperty

SpecObject == InitExec /\ [][NextObject]_vars

NextWalk ==
    \/ WalkEvent \/ WalkPlain \/ WalkReturn \/ WalkCommand \/ WalkIf \/ WalkLoop
    \/ WalkWhile \/ WalkWhileEnd \/ WalkFor \/ WalkNested \/ WalkRestore
    \/ WalkAfterIf \/ WalkTail \/ WalkDone

SpecWalk == InitExec /\ [][NextWalk]_vars

NextQueue == \/ QueueDefer \/ QueueReplay \/ QueueReplayStep \/ QueueReplayEnd

SpecQueue == InitExec /\ [][NextQueue]_vars

NextCommands ==
    \/ CommandsConfigRun \/ CommandHandler \/ CommandOverrideHandler \/ CommandsUnload

SpecCommands == InitExec /\ [][NextCommands]_vars

NextBlock == \/ CallParseActionBlock \/ ParseBlockLine

SpecBlock == InitExec /\ [][NextBlock]_vars
----
(***************************************************************************)
(* Properties of the deferred-action mechanism.                            *)
(***************************************************************************)
AlwaysDestructiveName(cmd) ==
    \E n \in {KICK, KILL, KLINE, GLINE, ZLINE, SHUN} : Fold(cmd) = Fold(n)

JoinFamilyName(cmd) ==
    \E n \in {SVSJOIN, SAJOIN, JOIN} : Fold(cmd) = Fold(n)

\* C1: a Command action named KICK, KILL, KLINE, GLINE, ZLINE or SHUN, in any
\* spelling of upper and lower case and in any hook, is never handed to
\* do_cmd by the step that executes it: that step appends exactly one entry
\* to the deferred queue.
C1_DestructiveIsDeferred ==
    (lastDispatch.via \in {"sync", "deferred"} /\ AlwaysDestructiveName(lastDispatch.cmd))
        => (lastDispatch.via = "deferred" /\ lastDispatch.queued = 1)

C1_Witness ==
    /\ lastDispatch.via = "deferred"
    /\ lastDispatch.cmd = <<"k","i","c","k">>
    /\ Len(deferred_actions) = 1

\* C2: the replay hands an entry to do_cmd only when, at that moment, the
\* client name and the channel name it recorded both resolve to live objects.
C2_ReplayOnlyResolved ==
    lastDispatch.via = "replay" => (lastDispatch.clientLive /\ lastDispatch.channelLive)

C2_Witness ==
    /\ lastDispatch.via = "replay"
    /\ lastDispatch.client # NULL
    /\ lastDispatch.channel # NULL

\* C3: no entry of the deferred queue is freed without the replay loop having
\* examined it, also when it was enqueued while a replay was in progress.
C3_NoEntryLost == ~lost

\* C4: at most one replay is active at a time, and a call of the replay
\* routine made while a replay is in progress hands nothing to do_cmd and
\* leaves the queue and the guard flag as they are.
C4_SingleReplay ==
    /\ [](Cardinality(ReplayFrames) <= 1)
    /\ [][blocked' => /\ UNCHANGED <<deferred_actions, executing_deferred_actions>>
                      /\ lastDispatch' = NoDispatch]_vars

C4_Witness ==
    /\ blocked
    /\ ReplayFrames # {}
    /\ deferred_actions # <<>>

\* C5: a Command action named SVSJOIN, SAJOIN or JOIN executed while a JOIN
\* hook (local or remote) is running its rules is not handed to do_cmd by the
\* step that executes it.
C5_JoinDeferredInJoinHook ==
    (lastDispatch.via = "sync" /\ lastDispatch.joinHook)
        => ~JoinFamilyName(lastDispatch.cmd)

\* C6: no substitution reads channel state through the live Channel pointer
\* after a command dispatched earlier in the same event has destroyed the
\* channel.
C6_NoReadOfDestroyedChannel == ~(chanRead.src = "live" /\ chanRead.dangling)

----
(***************************************************************************)
(* Properties of the control flow.                                         *)
(***************************************************************************)
NoLoopRunning ==
    \A k \in 1..Len(frames) : frames[k].kind \notin {"while", "for", "range"}

\* C7: once a Return action has executed in a rule body, at any depth of
\* nesting and with any value expression, no further action of that body is
\* executed.
C7_NothingAfterReturn == ~executed.after

\* C8: should_break and should_continue are both 0 whenever no loop is
\* running.
C8_FlagsClearOutsideLoops ==
    NoLoopRunning => (should_break = 0 /\ should_continue = 0)

\* C9: a While or C-style For loop that is left neither because its condition
\* evaluated to false nor by a Break, in a rule body in which no Return has
\* executed, is left at the cap after exactly MAX_LOOP_ITERATIONS passes of
\* its body.
C9_CapAfterExactlyMaxPasses ==
    (loopExit.kind \in {"while", "for"} /\ loopExit.how \notin {"cond", "break"}
        /\ ~returned)
        => (loopExit.how = "cap" /\ loopExit.passes = MAX_LOOP_ITERATIONS)

\* C10: no For loop, C-style or range, makes more than MAX_LOOP_ITERATIONS
\* passes of its body.
C10_ForLoopsCapped ==
    \A k \in 1..Len(frames) :
        frames[k].kind \in {"for", "range"} => frames[k].passes <= MAX_LOOP_ITERATIONS

\* the numeric relation an ordering operator denotes
Relation(operator, a, b) ==
    CASE operator = "<" -> a < b
      [] operator = ">" -> a > b
      [] operator = "<=" -> a <= b
      [] operator = ">=" -> a >= b

\* C18: a condition "%i < n", "%i > n", "%i <= n" or "%i >= n" on integers is
\* true exactly when the relation holds: a C-style For is left at its
\* condition only when the relation between %i and n does not hold.
C18_OrderingConditionIsNumeric ==
    (/\ loopExit.kind = "for"
     /\ loopExit.how = "cond"
     /\ loopExit.cond.operator \in {"<", ">", "<=", ">="}
     /\ var_i.t = "num"
     /\ loopExit.cond.value.t = "num")
        => ~Relation(loopExit.cond.operator, var_i.n, loopExit.cond.value.n)

\* C12: when the substitution of an argument of a Command action yields
\* SYNTAX_ERROR, the command is not dispatched, and no later action of the
\* same rule invocation is executed, also when the Command is nested in an
\* If/Else branch or in a loop body.
C12_SyntaxErrorAbortsRule ==
    /\ executed.error => ~executed.dispatched
    /\ ~executed.afterError

\* C13: for a CAN_JOIN rule whose target is * or the channel's name, the gate
\* blocks the join whenever the rule's execution reached "return $false" and
\* allows it whenever it reached "return $true", wherever the return is
\* written in the rule body.
C13_GateFollowsReturn ==
    gate.result # "none" =>
        /\ reached = "$false" => gate.result = "block"
        /\ reached = "$true" => gate.result = "allow"

\* C19: for the rule body whose If and Else are written with "} else {" on
\* one line, a PRIVMSG event of a live client named bob sends exactly one
\* NOTICE, "hello bob"; one of a client named alice sends exactly one NOTICE,
\* "who are you"; and no other notice is sent.
C19_ElseOnClosingLine ==
    (/\ layout = <<IfBob, HelloBob, <<" "," "," "," ","}"," ","e","l","s","e"," ","{">>, WhoAreYou, <<"}">>>>
     /\ event_client # NULL
     /\ frames = <<>>)
        => /\ Len(notices) = 1
           /\ notices[1].target = event_client
           /\ event_client = "bob" => Str(notices[1].message) = "hello bob"
           /\ event_client = "alice" => Str(notices[1].message) = "who are you"


----
(***************************************************************************)
(* Properties of the configuration run and of the unloading.               *)
(***************************************************************************)
FunctionNames == {"$greet", "$warn"}

\* C16: after a configuration run the function table holds exactly the
\* functions the file just loaded defines, each with the body that file gives
\* it: a function of an earlier load that the new file changes or leaves out
\* does not stay
C16_TableIsTheLoadedFile ==
    [][reloads' # reloads =>
          \A name \in FunctionNames :
              find_function(global_functions', name) =
                  find_function(LoadFunctions(script_files'.functions, <<>>), name)]_vars

\* C17: after a configuration run and after the unloading of the module the
\* deferred queue and the list of pending capabilities are empty and the four
\* flags are 0
C17_NothingSurvivesReload ==
    [][(reloads' # reloads \/ (unloaded' /\ ~unloaded)) =>
          /\ deferred_actions' = <<>>
          /\ pending_caps' = <<>>
          /\ executing_deferred_actions' = 0
          /\ in_join_context' = 0
          /\ should_break' = 0
          /\ should_continue' = 0]_vars


----
(***************************************************************************)
(* Properties of scopes and user functions.                                *)
(***************************************************************************)
\* C11: every run of the engine returns to the host: no chain of calls, a
\* function that calls itself included, outgrows the stack of the process
C11_EngineReturns == ~overflow

\* C14: the scope of every function call, one made inside the body of
\* another function included, has the module's scope as its parent
C14_CalleeParentIsGlobal == \A k \in 2..Len(scopes) : scopes[k].parent = 1

\* C15: a variable declared const keeps the value it had once declared,
\* whatever statement on its name runs later
C15_ConstKeepsValue ==
    \A d \in const_decl : get_variable(scopes, 1, d.name) = d.value

DoubleProgram == Program(<<FnDouble>>, <<<<"v","a","r"," ","%","r"," ","="," ","$","d","o","u","b","l","e","(","2","1",")">>>>)

\* C20: with $double defined, once "var %r = $double(21)" has run %r holds
\* the text 42
C20_DoubleOf21 ==
    (program = DoubleProgram /\ fn_runs > 0 /\ calls = <<>>) =>
        get_variable(scopes, 1, <<"r">>) = <<"4","2">>

----
(***************************************************************************)
(* Properties of the parser of script files.                               *)
(***************************************************************************)
Parsed == loaded \in {"accepted", "rejected"}

JoinHiRule ==
    ObbyScriptRule("US_EVENT_JOIN", <<"*">>,
         <<[SendNotice EXCEPT !.argc = 2, !.args = <<<<"$","c","l","i","e","n","t">>, <<"h","i">>>>]>>)

\* C21: the one-line text "on JOIN:*:{ sendnotice $client "hi" }" gives one
\* rule, event JOIN, target "*", with the one SendNotice action of arguments
\* "$client" and "hi", and nothing of the text after that line goes into it:
\* a rule that follows it is parsed as a rule of its own
C21_OneLineRule ==
    Parsed =>
      /\ script_content = <<JoinHi>> => rules = <<JoinHiRule>>
      /\ script_content = <<JoinHi, OnPart, NoticeBye, CloseBrace>> =>
            /\ Len(rules) = 2
            /\ rules[1] = JoinHiRule
            /\ rules[2].event = "US_EVENT_PART"

\* C22: no rule of the list has an event that parse_event_type does not know
C22_UnknownEventAddsNoRule ==
    \A i \in 1..Len(rules) : rules[i].event # US_EVENT_MAX

----
(***************************************************************************)
(* Properties of the substitution of variables and parameters.             *)
(***************************************************************************)
\* the text with "$chan." where it has "$channel."
ChanForm(text) == obbyscript_replace_string(text, <<"$","c","h","a","n","n","e","l",".">>, <<"$","c","h","a","n",".">>)

\* what substitute_variables returns for a well-formed text without
\* function calls
Substituted(input, ctx) ==
    ReplaceVariables(ctx.variables,
        obbyscript_replace_string(
            obbyscript_replace_string(
                ReplaceChannel(
                    ReplaceClient(IF ctx.in_command
                                  THEN substitute_command_parameters(input, ctx.parv)
                                  ELSE input, ctx.client),
                    ctx.channel),
                <<"$","s","e","r","v","e","r",".","n","a","m","e">>, ServerName),
            <<"$","t","i","m","e">>, Now),
        1)

Returned == subst_op = "substitute_variables" /\ subst_pc = "returned"

\* C23: a text with "$channel.<property>" gives what the same text with
\* "$chan.<property>" gives, and never the text SYNTAX_ERROR
C23_ChannelIsChan ==
    (Returned /\ Find(subst_input, <<"$","c","h","a","n","n","e","l",".">>) # 0) =>
        /\ subst_output # SYNTAX_ERROR
        /\ subst_output = Substituted(ChanForm(subst_input), subst_ctx)

RECURSIVE JoinParameters(_, _, _)
\* the parameters a..b with one space between them
JoinParameters(parv, a, b) ==
    IF a > b THEN <<>>
    ELSE IF a = b THEN parv[a]
    ELSE parv[a] \o <<" ">> \o JoinParameters(parv, a + 1, b)

\* C24: "$N" becomes the N-th parameter and "$a-b" with a <= b becomes the
\* parameters a to b, for every N, a and b the command has parameters for
C24_ParametersReplaced ==
    subst_op = "substitute_command_parameters" =>
        /\ \A n \in 1..Len(subst_ctx.parv) :
              subst_input = Dollar(n) => subst_output = subst_ctx.parv[n]
        /\ \A a \in 1..Len(subst_ctx.parv) : \A b \in a..Len(subst_ctx.parv) :
              subst_input = DollarRange(a, b) =>
                  subst_output = JoinParameters(subst_ctx.parv, a, b)

\* C26: a text without "$" and without "%" is returned as it is
C26_PlainTextUnchanged ==
    (/\ Returned
     /\ \A k \in 1..Len(subst_input) : subst_input[k] \notin {"$", "%"}) =>
        subst_output = subst_input

\* a text with white space at its end went through substitute_variables in a
\* command context, with a client and a channel
C26_PlainTextInCommand ==
    /\ Returned
    /\ subst_input = <<"h","e","l","l","o"," ","w","o","r","l","d"," ">>
    /\ subst_ctx.in_command
    /\ subst_ctx.client = Alice
    /\ subst_ctx.channel = TestChannel
    /\ subst_output = subst_input

\* C30: a value that is put in place of a variable is not looked at again:
\* a text that is one parameter, the topic, or one script variable becomes
\* the value as it is
C30_InsertedValueIsLiteral ==
    Returned =>
        /\ (subst_input = Dollar(1) /\ subst_ctx.in_command) =>
               subst_output = subst_ctx.parv[1]
        /\ (subst_input = <<"$","c","h","a","n",".","t","o","p","i","c">> /\ subst_ctx.channel # NoChannel) =>
               subst_output = subst_ctx.channel.topic
        /\ (subst_input = <<"%","g","r","e","e","t","i","n","g">> /\ subst_ctx.variables = Greeting) =>
               subst_output = get_variable(Greeting, 1, <<"%","g","r","e","e","t","i","n","g">>)

\* C25: && binds tighter than ||, and parentheses are honoured: the three
\* conditions "a && b || c", "a || b && c" and "(a || b) && c" parse as
\* Or(And(a,b), c), Or(a, And(b,c)) and And(Paren(Or(a,b)), c)
C25_Precedence ==
    subst_op = "parse_bool_expression" =>
        /\ subst_input = AndOr =>
              bool_expr = Or(And(Simple(<<"a">>), Simple(<<"b">>)), Simple(<<"c">>))
        /\ subst_input = OrAnd =>
              bool_expr = Or(Simple(<<"a">>), And(Simple(<<"b">>), Simple(<<"c">>)))
        /\ subst_input = ParenOrAnd =>
              bool_expr = And(Paren(Or(Simple(<<"a">>), Simple(<<"b">>))), Simple(<<"c">>))

C25_ParenthesesParsed ==
    /\ subst_op = "parse_bool_expression"
    /\ subst_input = ParenOrAnd
    /\ bool_expr.type = "US_EXPR_AND"
    /\ bool_expr.left.type = "US_EXPR_PARENTHESES"

\* the step ends a rule invocation in which no Return executed and no
\* Command met a syntax error
EndsWithoutReturn ==
    /\ frames # <<>>
    /\ frames' = <<>>
    /\ ~returned'
    /\ ~aborted'

\* C27: a Return executed outside a function call affects only the rule
\* invocation that executed it: a rule invocation in which no Return
\* executed ends at the last action of its chain, also when a Return has
\* executed in an earlier invocation.
C27_LaterRulesRunWhole ==
    [][EndsWithoutReturn => frames[1].pc = Len(frames[1].acts)]_vars

\* C28: in one invocation of a matching rule, from event dispatch, from the
\* join gate or from START processing, each action of the rule's chain is
\* executed at most once.
C28_EachActionOnce == \A p \in DOMAIN times : times[p] <= 1

\* the last step executed a Break or a Continue inside a loop body, and the
\* pass of the body it belongs to has not ended
BrokeInPass ==
    /\ executed.type \in {"US_ACTION_BREAK", "US_ACTION_CONTINUE"}
    /\ \E k \in 1..Len(frames) :
          frames[k].kind \in {"while", "for", "range"} /\ frames[k].phase = "body"

\* C29: after a Break or Continue has executed in a loop body, also in the
\* else-branch of an If of that body, no further action of the current
\* iteration is executed: the next step executes no action.
C29_NothingAfterBreak == [][BrokeInPass => executed'.type = "none"]_vars

\* C31: substitute_variables terminates for every text and every set of
\* variable bindings, also when a variable's value holds its own name or
\* two variables hold each other's: once the loop over the "%" of output
\* has been entered, the function returns.
C31_SubstituteTerminates == (subst_op = "variable_loop") ~> (subst_pc = "returned")

\* C32: a variable of kind Client or Channel kept in the global scope is
\* never dereferenced after the host has freed the object it points to.
C32_NoReadOfFreedObject == ~objRead.dangling

\* a walk that has executed an action of a nested list and is about to go on
Restoring(f) ==
    f.pc \in {"restore_nested", "restore_else", "restore_while_body", "restore_for_body"}

\* the call is part of an invocation made while another one is running
Inner(k) == Cardinality({j \in 1..k : walkers[j].event}) > 1

\* C33: an invocation of a rule made while an outer invocation of the same
\* rule is running walks whole lists: what it saved as the successor of an
\* action is the successor the action has in the parsed tree
C33_InnerWalksWholeLists ==
    \A k \in 1..Len(walkers) :
        Inner(k) /\ Restoring(walkers[k])
            => walkers[k].saved_next = walkers[1].before[walkers[k].current_nested]

\* C35: when a call of execute_script_action returns, whatever the way, every
\* next pointer has the value it had when the call was made
C35_PointersRestored ==
    [][Len(walkers') < Len(walkers)
          => NextPointers(rule_actions') = walkers[Len(walkers)].before]_vars

\* a walk has returned early on a Return and the event is over
C35_ReturnedEarly ==
    /\ walkers = <<>>
    /\ runs > 0
    /\ return_val # <<>>
    /\ NextPointers(rule_actions) = NextPointers(ReturnRule)

\* C34: the replay hands the entries to do_cmd in the order in which the
\* script issued them: the i-th entry dispatched is the i-th entry issued
\* (no client leaves between the two, so no entry is skipped)
C34_ReplayInIssueOrder ==
    \A i \in 1..Len(replayed) : ReplayInProgress => replayed[i] = issued[i]

\* C36: a call of a function changes no global variable its body does not
\* assign: after the rule "var %n = 5" then "$double(2)", where n is the
\* parameter of double and its body assigns nothing but its return value,
\* the global %n is 5
C36_CallKeepsGlobals ==
    (program = ShadowProgram /\ fn_runs > 0 /\ calls = <<>> /\ ~overflow)
        => get_variable(scopes, 1, <<"n">>) = <<"5">>

\* C37: every entry of the table of registered commands points to a rule
\* that is allocated, a rule of the script file loaded last, also after a
\* configuration run has freed the files and loaded new ones
C37_TableRefersToLoadedRules ==
    \A k \in 1..Len(registered_commands) : ~FreedRule(registered_commands[k])

\* a line of a block that is a statement: not blank, not a comment, and not
\* a line of braces and else
IsStatementLine(line) ==
    LET current_line == SkipSpaces(line)
    IN  /\ current_line # <<>>
        /\ ~StartsWith(current_line, <<"/","/">>)
        /\ current_line[1] \notin {"}", "{"}
        /\ ~StartsWith(current_line, <<"e","l","s","e">>)

StatementLines(lines) == Cardinality({k \in 1..Len(lines) : IsStatementLine(lines[k])})

RECURSIVE TreeSize(_)
\* the actions of a parsed tree, each counted as often as the tree has it
TreeSize(actions) ==
    IF actions = <<>> THEN 0
    ELSE 1 + TreeSize(Head(actions).nested_actions) + TreeSize(Head(actions).else_actions)
           + TreeSize(Tail(actions))

\* C39: every statement line of an action block gives exactly one action of
\* the parsed tree the rule runs with, the line after the closing brace of an
\* If block too
C39_EveryLineOneAction ==
    runs > 0 => TreeSize(parse_action_block(layout)) = StatementLines(layout)

IsLoop(action) == action.type \in {"US_ACTION_WHILE", "US_ACTION_FOR"}

HasLoop(actions) == \E i \in 1..Len(actions) : IsLoop(actions[i])

\* C38: a loop written inside the block of an If, or of its Else, is in the
\* nested actions of that branch and in no other list: when the body has
\* been parsed, the list of the rule has no loop, the other branch has none,
\* and the branch the loop was written in has it
C38_LoopBelongsToItsBranch ==
    (block_parse.k > Len(block_content) /\ block_content \in LoopInIf \cup LoopInElse)
        => LET actions == block_parse.st.actions
           IN  /\ ~HasLoop(actions)
               /\ actions # <<>>
               /\ IF block_content \in LoopInIf
                  THEN HasLoop(actions[1].nested_actions) /\ ~HasLoop(actions[1].else_actions)
                  ELSE HasLoop(actions[1].else_actions) /\ ~HasLoop(actions[1].nested_actions)

====
